---- MODULE Spec2Model ----
(***************************************************************************)
(* Model of cargo-add's manifest editing core:                             *)
(*   crates/cargo-add/src/cargo/ops/cargo_add/dependency.rs                *)
(*   crates/cargo-add/src/cargo/ops/cargo_add/manifest.rs                  *)
(*   src/bin/add/args.rs                                                   *)
(*                                                                         *)
(* Representation.                                                         *)
(*  - Option<T>: NoneV or Some(x).                                         *)
(*  - A TOML item is a record whose field t is the string toml_edit's     *)
(*    type_name() returns, with the payload in a field named after the     *)
(*    type (s, b, i, elems, entries).  A table payload is the              *)
(*    sequence of its entries in document order, [k, v, raw]; raw is TRUE  *)
(*    while the key/value pair still has hand-written decoration and FALSE *)
(*    once the tool has (re)formatted it.                                  *)
(*  - A version string is the sequence of its tokens, "+" being a token,   *)
(*    so that truncation at the first '+' is computed, not assumed.        *)
(*  - A path (a PathBuf, and the string in a `path` field) is the sequence *)
(*    of its components; an absolute path starts with the root component   *)
(*    "/", and ".." is the parent-directory component.                     *)
(*  - Every other string (names, keys, urls, features) is atomic.          *)
(***************************************************************************)
EXTENDS Integers, Sequences, FiniteSets, TLC

VARIABLES
    doc,         \* LocalManifest.manifest.data: the root table of the document
    pre,         \* the document before the last operation
    op,          \* the last operation: its name, inputs and outcome
    crate_root,  \* LocalManifest.path.parent(), an absolute path
    dep,         \* a Dependency value handed to to_toml
    item,        \* the node to_toml returned
    back,        \* the result of from_toml on that node
    item2,       \* the node to_toml returned for the dependency read back
    pc,          \* position in the sequence of calls being run
    file,        \* the manifest file at LocalManifest.path: the root table last stored
    out          \* what the last call of features() or get_sections() returned

vars == <<doc, pre, op, crate_root, dep, item, back, item2, pc, file, out>>

-----------------------------------------------------------------------------
(* Option and Result *)

NoneV == [some |-> FALSE]
Some(x) == [some |-> TRUE, v |-> x]

Ok(x) == [ok |-> TRUE, v |-> x]
Err(e) == [ok |-> FALSE, err |-> e]

Min(S) == CHOOSE x \in S : \A y \in S : x <= y

-----------------------------------------------------------------------------
(* toml_edit items *)

Str(s) == [t |-> "string", s |-> s]
Bool(b) == [t |-> "boolean", b |-> b]
Integer(i) == [t |-> "integer", i |-> i]
Arr(elems) == [t |-> "array", elems |-> elems]
InlineTable(entries) == [t |-> "inline table", entries |-> entries]
Table(entries) == [t |-> "table", entries |-> entries]
ItemNone == [t |-> "none"]

is_str(i) == i.t = "string"
is_bool(i) == i.t = "boolean"
is_array(i) == i.t = "array"
is_inline_table(i) == i.t = "inline table"
is_table_like(i) == i.t \in {"table", "inline table"}

\* An entry written by the tool carries default decoration.
KV(k, v) == [k |-> k, v |-> v, raw |-> FALSE]

Keys(entries) == {entries[i].k : i \in 1..Len(entries)}
contains_key(entries, k) == k \in Keys(entries)
IndexOf(entries, k) == CHOOSE i \in 1..Len(entries) : entries[i].k = k

\* TableLike::get
get(entries, k) ==
    IF contains_key(entries, k) THEN Some(entries[IndexOf(entries, k)].v) ELSE NoneV

\* TableLike::insert: an existing key keeps its position, a new key is appended.
insert(entries, k, v) ==
    IF contains_key(entries, k)
    THEN [entries EXCEPT ![IndexOf(entries, k)] = KV(k, v)]
    ELSE Append(entries, KV(k, v))

\* TableLike::remove: the other entries keep their order.
remove(entries, k) ==
    IF contains_key(entries, k)
    THEN LET i == IndexOf(entries, k)
         IN  SubSeq(entries, 1, i - 1) \o SubSeq(entries, i + 1, Len(entries))
    ELSE entries

RECURSIVE remove_all(_, _)
remove_all(entries, ks) ==
    IF ks = <<>> THEN entries ELSE remove_all(remove(entries, Head(ks)), Tail(ks))

\* TableLike::fmt: every key/value pair gets the default decoration.
fmt(entries) == [i \in 1..Len(entries) |-> [entries[i] EXCEPT !.raw = FALSE]]

-----------------------------------------------------------------------------
(* Sources *)

\* Variant: the requirement is stored as given.
strip_semver_metadata_keeps_all(version) == version

\* `version.as_ref().split('+').next().unwrap()`
strip_semver_metadata(version) ==
    LET plus == {i \in 1..Len(version) : version[i] = "+"}
    IN  IF plus = {} THEN version ELSE SubSeq(version, 1, Min(plus) - 1)

RegistrySource_new(version) ==
    [kind |-> "registry", version |-> strip_semver_metadata(version)]

PathSource_new(path) == [kind |-> "path", path |-> path, version |-> NoneV]

PathSource_set_version(src, version) ==
    [src EXCEPT !.version = Some(strip_semver_metadata(version))]

GitSource_new(git) ==
    [kind |-> "git", git |-> git, branch |-> NoneV, tag |-> NoneV, rev |-> NoneV]

set_branch(src, branch) ==
    [src EXCEPT !.branch = Some(branch), !.tag = NoneV, !.rev = NoneV]

set_tag(src, tag) ==
    [src EXCEPT !.branch = NoneV, !.tag = Some(tag), !.rev = NoneV]

set_rev(src, rev) ==
    [src EXCEPT !.branch = NoneV, !.tag = NoneV, !.rev = Some(rev)]

-----------------------------------------------------------------------------
(* Dependency *)

Dependency_new(name) ==
    [name |-> name, optional |-> NoneV, features |-> NoneV,
     default_features |-> NoneV, source |-> NoneV, registry |-> NoneV,
     rename |-> NoneV, available_features |-> {}]

set_source(d, source) == [d EXCEPT !.source = Some(source)]

toml_key(d) == IF d.rename.some THEN d.rename.v ELSE d.name

-----------------------------------------------------------------------------
(* Paths *)

is_absolute(path) == Len(path) > 0 /\ path[1] = "/"

\* Path::join: an absolute argument replaces the base.
join(base, path) == IF is_absolute(path) THEN path ELSE base \o path

\* pathdiff::diff_paths for two absolute paths whose base has no "." or ".."
\* component (the crate root is the parent of a canonicalized manifest path).
RECURSIVE diff_paths_loop(_, _, _)
diff_paths_loop(a, b, comps) ==
    IF a = <<>> /\ b = <<>> THEN comps
    ELSE IF b = <<>> THEN comps \o a
    ELSE IF a = <<>> THEN diff_paths_loop(a, Tail(b), Append(comps, ".."))
    ELSE IF comps = <<>> /\ Head(a) = Head(b)
         THEN diff_paths_loop(Tail(a), Tail(b), comps)
    ELSE comps \o [i \in 1..Len(b) |-> ".."] \o a

\* `relpath.to_str().unwrap().replace('\\', "/")` on a build where '/' is the
\* only separator: a component whose name holds a backslash is written as two
\* components.  "a\\b" is the one such name the model uses.
RECURSIVE replace_backslash(_)
replace_backslash(comps) ==
    IF comps = <<>> THEN <<>>
    ELSE (IF Head(comps) = "a\\b" THEN <<"a", "b">> ELSE <<Head(comps)>>)
         \o replace_backslash(Tail(comps))

path_field(root, abs_path) == replace_backslash(diff_paths_loop(abs_path, root, <<>>))

-----------------------------------------------------------------------------
(* Dependency::from_toml *)

invalid_type(dep_key, key, actual, expected) ==
    [kind |-> "invalid_type", dep |-> dep_key, key |-> key,
     actual |-> actual, expected |-> expected]

\* Variant: the package field gives the name but the key is not kept as rename.
from_toml_package_without_rename(key, table) ==
    LET value == get(table, "package")
    IN  IF value.some
        THEN IF is_str(value.v)
             THEN Ok([name |-> value.v.s, rename |-> NoneV])
             ELSE Err(invalid_type(key, "package", value.v.t, "string"))
        ELSE Ok([name |-> key, rename |-> NoneV])

\* `package` gives the name, and the document key becomes the rename.
from_toml_package(key, table) ==
    LET value == get(table, "package")
    IN  IF value.some
        THEN IF is_str(value.v)
             THEN Ok([name |-> value.v.s, rename |-> Some(key)])
             ELSE Err(invalid_type(key, "package", value.v.t, "string"))
        ELSE Ok([name |-> key, rename |-> NoneV])

\* One optional git reference field applied to the source built so far.
from_toml_git_ref(key, table, field, src) ==
    LET value == get(table, field)
    IN  IF ~src.ok \/ ~value.some THEN src
        ELSE IF ~is_str(value.v)
             THEN Err(invalid_type(key, field, value.v.t, "string"))
        ELSE Ok(CASE field = "branch" -> set_branch(src.v, value.v.s)
                  [] field = "tag" -> set_tag(src.v, value.v.s)
                  [] field = "rev" -> set_rev(src.v, value.v.s))

\* Variant: a table without git, path and version is read as any version.
from_toml_source_defaults_to_any(root, key, table) ==
    LET git == get(table, "git")
        path == get(table, "path")
        version == get(table, "version")
    IN  IF git.some
        THEN IF ~is_str(git.v)
             THEN Err(invalid_type(key, "git", git.v.t, "string"))
             ELSE from_toml_git_ref(key, table, "rev",
                  from_toml_git_ref(key, table, "tag",
                  from_toml_git_ref(key, table, "branch",
                      Ok(GitSource_new(git.v.s)))))
        ELSE IF path.some
        THEN IF ~is_str(path.v)
             THEN Err(invalid_type(key, "path", path.v.t, "string"))
             ELSE LET src == PathSource_new(join(root, path.v.s))
                  IN  IF ~version.some THEN Ok(src)
                      ELSE IF ~is_str(version.v)
                           THEN Err(invalid_type(key, "version", version.v.t, "string"))
                      ELSE Ok(PathSource_set_version(src, version.v.s))
        ELSE IF version.some
        THEN IF ~is_str(version.v)
             THEN Err(invalid_type(key, "version", version.v.t, "string"))
             ELSE Ok(RegistrySource_new(version.v.s))
        ELSE Ok(RegistrySource_new(<<"*">>))

from_toml_source(root, key, table) ==
    LET git == get(table, "git")
        path == get(table, "path")
        version == get(table, "version")
    IN  IF git.some
        THEN IF ~is_str(git.v)
             THEN Err(invalid_type(key, "git", git.v.t, "string"))
             ELSE from_toml_git_ref(key, table, "rev",
                  from_toml_git_ref(key, table, "tag",
                  from_toml_git_ref(key, table, "branch",
                      Ok(GitSource_new(git.v.s)))))
        ELSE IF path.some
        THEN IF ~is_str(path.v)
             THEN Err(invalid_type(key, "path", path.v.t, "string"))
             ELSE LET src == PathSource_new(join(root, path.v.s))
                  IN  IF ~version.some THEN Ok(src)
                      ELSE IF ~is_str(version.v)
                           THEN Err(invalid_type(key, "version", version.v.t, "string"))
                      ELSE Ok(PathSource_set_version(src, version.v.s))
        ELSE IF version.some
        THEN IF ~is_str(version.v)
             THEN Err(invalid_type(key, "version", version.v.t, "string"))
             ELSE Ok(RegistrySource_new(version.v.s))
        ELSE Err([kind |-> "unrecognized_source", dep |-> key])

from_toml_registry(key, table) ==
    LET value == get(table, "registry")
    IN  IF ~value.some THEN Ok(NoneV)
        ELSE IF ~is_str(value.v)
             THEN Err(invalid_type(key, "registry", value.v.t, "string"))
        ELSE Ok(Some(value.v.s))

\* Variant: a flag written as `false` is read as unset.
from_toml_bool_true_only(table, field) ==
    LET value == get(table, field)
    IN  IF value.some /\ is_bool(value.v) /\ value.v.b THEN Some(TRUE) ELSE NoneV

\* `table.get(field).and_then(|v| v.as_bool())`
from_toml_bool(table, field) ==
    LET value == get(table, field)
    IN  IF value.some /\ is_bool(value.v) THEN Some(value.v.b) ELSE NoneV

\* Collecting into an IndexSet keeps the first occurrence of each element.
RECURSIVE index_set(_)
index_set(s) ==
    IF s = <<>> THEN <<>>
    ELSE LET init == index_set(SubSeq(s, 1, Len(s) - 1))
             last == s[Len(s)]
         IN  IF \E i \in 1..Len(init) : init[i] = last THEN init ELSE Append(init, last)

from_toml_features(key, table) ==
    LET value == get(table, "features")
    IN  IF ~value.some THEN Ok(NoneV)
        ELSE IF ~is_array(value.v)
             THEN Err(invalid_type(key, "features", value.v.t, "array"))
        ELSE LET a == value.v.elems
                 bad == {i \in 1..Len(a) : ~is_str(a[i])}
             IN  IF bad # {}
                 THEN Err(invalid_type(key, "features", a[Min(bad)].t, "string"))
                 ELSE Ok(Some(index_set([i \in 1..Len(a) |-> a[i].s])))

from_toml(root, key, node) ==
    IF is_str(node)
    THEN Ok(set_source(Dependency_new(key), RegistrySource_new(node.s)))
    ELSE IF is_table_like(node)
    THEN LET table == node.entries
             package == from_toml_package(key, table)
             source == from_toml_source(root, key, table)
             registry == from_toml_registry(key, table)
             features == from_toml_features(key, table)
         IN  IF ~package.ok THEN package
             ELSE IF ~source.ok THEN source
             ELSE IF ~registry.ok THEN registry
             ELSE IF ~features.ok THEN features
             ELSE Ok([name |-> package.v.name,
                      rename |-> package.v.rename,
                      source |-> Some(source.v),
                      registry |-> registry.v,
                      default_features |-> from_toml_bool(table, "default-features"),
                      features |-> features.v,
                      available_features |-> {},
                      optional |-> from_toml_bool(table, "optional")])
    ELSE Err([kind |-> "unrecognized_format", dep |-> key])

-----------------------------------------------------------------------------
(* Dependency::to_toml *)

unwrap_or(o, default) == IF o.some THEN o.v ELSE default

\* Variant: the short form is chosen without looking at rename.
is_short_form_ignoring_rename(d) ==
    /\ unwrap_or(d.optional, FALSE) = FALSE
    /\ ~d.features.some
    /\ unwrap_or(d.default_features, TRUE) = TRUE
    /\ d.source.some /\ d.source.v.kind = "registry"
    /\ ~d.registry.some

\* The match arm "Extra short when version flag only".
is_short_form(d) ==
    /\ unwrap_or(d.optional, FALSE) = FALSE
    /\ ~d.features.some
    /\ unwrap_or(d.default_features, TRUE) = TRUE
    /\ d.source.some /\ d.source.v.kind = "registry"
    /\ ~d.registry.some
    /\ ~d.rename.some

insert_if(entries, cond, k, v) == IF cond THEN insert(entries, k, v) ELSE entries

insert_some(entries, k, o) == IF o.some THEN insert(entries, k, Str(o.v)) ELSE entries

to_toml_source(d, root) ==
    IF ~d.source.some THEN <<>>
    ELSE LET src == d.source.v
         IN  CASE src.kind = "registry" -> insert(<<>>, "version", Str(src.version))
               [] src.kind = "path" ->
                    insert(insert_some(<<>>, "version", src.version),
                           "path", Str(path_field(root, src.path)))
               [] src.kind = "git" ->
                    insert_some(insert_some(insert_some(
                        insert(<<>>, "git", Str(src.git)),
                        "branch", src.branch), "tag", src.tag), "rev", src.rev)

features_value(features) == Arr([i \in 1..Len(features) |-> Str(features[i])])

to_toml(d, root) ==
    IF is_short_form(d) THEN Str(d.source.v.version)
    ELSE LET t1 == to_toml_source(d, root)
             t2 == insert_if(t1, contains_key(t1, "version") /\ d.registry.some,
                             "registry", Str(unwrap_or(d.registry, "")))
             t3 == insert_if(t2, d.rename.some, "package", Str(d.name))
             t4 == insert_if(t3, d.default_features.some, "default-features",
                             Bool(unwrap_or(d.default_features, TRUE)))
             t5 == insert_if(t4, d.features.some, "features",
                             features_value(unwrap_or(d.features, <<>>)))
             t6 == insert_if(t5, d.optional.some, "optional",
                             Bool(unwrap_or(d.optional, FALSE)))
         IN  InlineTable(t6)

-----------------------------------------------------------------------------
(* Dependency::update_toml *)

\* Variant: any table counts as having nothing to preserve.
str_or_any_table(node) == is_str(node) \/ is_table_like(node)

str_or_1_len_table(node) == is_str(node) \/ (is_table_like(node) /\ Len(node.entries) = 1)

\* `table.get("package").and_then(|i| i.as_str())` against `rename.map(|_| name)`
is_package_eq(node, name, rename) ==
    IF is_table_like(node)
    THEN LET package == get(node.entries, "package")
             existing_package ==
                 IF package.some /\ is_str(package.v) THEN Some(package.v.s) ELSE NoneV
             new_package == IF rename.some THEN Some(name) ELSE NoneV
         IN  existing_package = new_package
    ELSE FALSE

\* `if let Some(x) = o { table.insert(k, value(x)) } else { table.remove(k) }`
set_or_remove(entries, k, o) ==
    IF o.some THEN insert(entries, k, Str(o.v)) ELSE remove(entries, k)

set_or_remove_bool(entries, k, o) ==
    IF o.some THEN insert(entries, k, Bool(o.v)) ELSE remove(entries, k)

\* Variant: the new source is written without clearing the other kinds' keys.
update_toml_source_keeps_other_kinds(d, root, table) ==
    IF ~d.source.some THEN table
    ELSE LET src == d.source.v
         IN  CASE src.kind = "registry" -> insert(table, "version", Str(src.version))
               [] src.kind = "path" ->
                    insert(set_or_remove(table, "version", src.version),
                           "path", Str(path_field(root, src.path)))
               [] src.kind = "git" ->
                    set_or_remove(set_or_remove(set_or_remove(
                        insert(table, "git", Str(src.git)),
                        "branch", src.branch), "tag", src.tag), "rev", src.rev)

update_toml_source(d, root, table) ==
    IF ~d.source.some THEN table
    ELSE LET src == d.source.v
         IN  CASE src.kind = "registry" ->
                    remove_all(insert(table, "version", Str(src.version)),
                               <<"path", "git", "branch", "tag", "rev">>)
               [] src.kind = "path" ->
                    remove_all(
                        insert(set_or_remove(table, "version", src.version),
                               "path", Str(path_field(root, src.path))),
                        <<"git", "branch", "tag", "rev">>)
               [] src.kind = "git" ->
                    remove_all(
                        set_or_remove(set_or_remove(set_or_remove(
                            insert(table, "git", Str(src.git)),
                            "branch", src.branch), "tag", src.tag), "rev", src.rev),
                        <<"version", "path">>)

\* Variant: the registry is written whether or not a version key is left.
update_toml_registry_without_version(d, table) ==
    set_or_remove(table, "registry", d.registry)

update_toml_registry(d, table) ==
    IF contains_key(table, "version")
    THEN set_or_remove(table, "registry", d.registry)
    ELSE remove(table, "registry")

\* The strings of the existing `features` array; nothing when the entry has
\* no array value there or the array has an element that is not a string.
existing_features(table) ==
    LET value == get(table, "features")
    IN  IF value.some /\ is_array(value.v)
           /\ \A i \in 1..Len(value.v.elems) : is_str(value.v.elems[i])
        THEN index_set([i \in 1..Len(value.v.elems) |-> value.v.elems[i].s])
        ELSE <<>>

update_toml_features(d, table) ==
    IF d.features.some
    THEN insert(table, "features",
                features_value(index_set(existing_features(table) \o d.features.v)))
    ELSE remove(table, "features")

update_toml(d, root, node) ==
    IF str_or_1_len_table(node) THEN to_toml(d, root)
    ELSE IF ~is_package_eq(node, d.name, d.rename) THEN to_toml(d, root)
    ELSE LET t1 == update_toml_source(d, root, node.entries)
             t2 == update_toml_registry(d, t1)
             t3 == insert_if(t2, d.rename.some, "package", Str(d.name))
             t4 == set_or_remove_bool(t3, "default-features", d.default_features)
             t5 == update_toml_features(d, t4)
             t6 == set_or_remove_bool(t5, "optional", d.optional)
         IN  [node EXCEPT !.entries = fmt(t6)]

-----------------------------------------------------------------------------
(* Manifest::get_table_mut and LocalManifest::insert_into_table *)

non_existent_table_err(segment) == [kind |-> "non_existent_table", table |-> segment]

\* Variant: the error names the last segment of the path.
RECURSIVE get_table_names_last_segment(_, _)
get_table_names_last_segment(input, path) ==
    IF path = <<>> THEN Ok(input)
    ELSE LET segment == Head(path)
             value == get(input.entries, segment)
         IN  IF ~value.some THEN Err(non_existent_table_err(path[Len(path)]))
             ELSE IF is_table_like(value.v)
                  THEN get_table_names_last_segment(value.v, Tail(path))
             ELSE Err(non_existent_table_err(path[Len(path)]))

\* Manifest::get_table, the read path: nothing is created.
RECURSIVE get_table(_, _)
get_table(input, path) ==
    IF path = <<>> THEN Ok(input)
    ELSE LET segment == Head(path)
             value == get(input.entries, segment)
         IN  IF ~value.some THEN Err(non_existent_table_err(segment))
             ELSE IF is_table_like(value.v) THEN get_table(value.v, Tail(path))
             ELSE Err(non_existent_table_err(segment))

\* `input[&segment].or_insert(toml_edit::table())`
or_insert_table(entries, segment) ==
    IF contains_key(entries, segment) THEN entries
    ELSE Append(entries, KV(segment, Table(<<>>)))

\* Replaces the value under an existing key; the pair keeps its decoration.
set_value(entries, k, v) == [entries EXCEPT ![IndexOf(entries, k)].v = v]

\* Variant: the read path's descent, which creates nothing and fails on an
\* absent segment.
RECURSIVE get_table_mut_without_insert(_, _)
get_table_mut_without_insert(input, path) ==
    IF path = <<>> THEN Ok(input)
    ELSE LET segment == Head(path)
             value == get(input.entries, segment)
         IN  IF value.some /\ is_table_like(value.v)
             THEN LET rest == get_table_mut_without_insert(value.v, Tail(path))
                  IN  [rest EXCEPT !.v =
                          [input EXCEPT !.entries = set_value(input.entries, segment, rest.v)]]
             ELSE [ok |-> FALSE, err |-> non_existent_table_err(segment), v |-> input]

\* The descent: every absent segment is created as an empty table before it
\* is looked at; the error names the first segment that is not table-like.
\* In both outcomes v is the input as the descent left it.
RECURSIVE get_table_mut(_, _)
get_table_mut(input, path) ==
    IF path = <<>> THEN Ok(input)
    ELSE LET segment == Head(path)
             entries == or_insert_table(input.entries, segment)
             value == get(entries, segment).v
         IN  IF is_table_like(value)
             THEN LET rest == get_table_mut(value, Tail(path))
                  IN  [rest EXCEPT !.v =
                          [input EXCEPT !.entries = set_value(entries, segment, rest.v)]]
             ELSE [ok |-> FALSE, err |-> non_existent_table_err(segment),
                   v |-> [input EXCEPT !.entries = entries]]

\* The node the reference returned by get_table_mut points at.
RECURSIVE table_at(_, _)
table_at(input, path) ==
    IF path = <<>> THEN input
    ELSE table_at(get(input.entries, Head(path)).v, Tail(path))

\* An assignment through that reference.
RECURSIVE with_table_at(_, _, _)
with_table_at(input, path, node) ==
    IF path = <<>> THEN node
    ELSE [input EXCEPT !.entries = set_value(input.entries, Head(path),
              with_table_at(get(input.entries, Head(path)).v, Tail(path), node))]

\* Variant: the located table is rebuilt around the one entry.
insert_dep_alone(table, d, root) ==
    LET dep_key == toml_key(d)
    IN  [table EXCEPT !.entries =
            <<KV(dep_key, IF contains_key(table.entries, dep_key)
                          THEN update_toml(d, root, get(table.entries, dep_key).v)
                          ELSE to_toml(d, root))>>]

\* The body of insert_into_table once the table is located.
insert_dep(table, d, root) ==
    LET dep_key == toml_key(d)
        entries ==
            IF contains_key(table.entries, dep_key)
            THEN set_value(table.entries, dep_key,
                           update_toml(d, root, get(table.entries, dep_key).v))
            ELSE insert(table.entries, dep_key, to_toml(d, root))
    IN  [table EXCEPT !.entries = IF is_inline_table(table) THEN fmt(entries) ELSE entries]

insert_into_table(manifest, table_path, d, root) ==
    LET located == get_table_mut(manifest, table_path)
    IN  IF ~located.ok THEN located
        ELSE Ok(with_table_at(located.v, table_path,
                              insert_dep(table_at(located.v, table_path), d, root)))

-----------------------------------------------------------------------------
(* Manifest::get_sections and Manifest::features *)

DEP_TABLES == <<"dependencies", "dev-dependencies", "build-dependencies">>

\* `Item::get`: a lookup in anything that is not table-like finds nothing.
item_get(node, k) == IF is_table_like(node) THEN get(node.entries, k) ELSE NoneV

\* The sections of one kind under `target`, in document order.
RECURSIVE target_sections(_, _)
target_sections(targets, dependency_type) ==
    IF targets = <<>> THEN <<>>
    ELSE LET dependency_table == item_get(Head(targets).v, dependency_type)
             rest == target_sections(Tail(targets), dependency_type)
         IN  IF dependency_table.some /\ is_table_like(dependency_table.v)
             THEN <<[path |-> <<"target", Head(targets).k, dependency_type>>,
                     table |-> dependency_table.v]>> \o rest
             ELSE rest

\* Variant: every top-level section is collected before any target section.
get_sections_top_level_first(data, kinds) ==
    LET target == get(data.entries, "target")
        targets == IF target.some /\ is_table_like(target.v) THEN target.v.entries ELSE <<>>
        top(i) == get(data.entries, DEP_TABLES[i])
        present == SelectSeq(<<1, 2, 3>>, LAMBDA i : top(i).some /\ is_table_like(top(i).v))
    IN  [j \in 1..Len(present) |-> [path |-> <<DEP_TABLES[present[j]]>>, table |-> top(present[j]).v]]
        \o target_sections(targets, DEP_TABLES[1])
        \o target_sections(targets, DEP_TABLES[2])
        \o target_sections(targets, DEP_TABLES[3])

\* The loop over DEP_TABLES: for each kind, the top-level section and then
\* that kind's sections under `target`.
RECURSIVE get_sections_loop(_, _)
get_sections_loop(data, kinds) ==
    IF kinds = <<>> THEN <<>>
    ELSE LET dependency_type == Head(kinds)
             top == get(data.entries, dependency_type)
             target == get(data.entries, "target")
             targets == IF target.some /\ is_table_like(target.v)
                        THEN target.v.entries ELSE <<>>
         IN  (IF top.some /\ is_table_like(top.v)
              THEN <<[path |-> <<dependency_type>>, table |-> top.v]>> ELSE <<>>)
             \o target_sections(targets, dependency_type)
             \o get_sections_loop(data, Tail(kinds))

get_sections(data) == get_sections_loop(data, DEP_TABLES)

invalid_cargo_config == [kind |-> "invalid_cargo_config"]

\* `table.get("optional").and_then(as_value).and_then(as_bool).unwrap_or(false)`
is_optional(dep_item) ==
    LET optional == item_get(dep_item, "optional")
    IN  optional.some /\ is_bool(optional.v) /\ optional.v.b

\* One value of the [features] table as a list of strings: a value that is
\* not an array counts as the empty array, an element that is not a string
\* yields nothing.
feature_list(v) ==
    LET a == IF is_array(v) THEN v.elems ELSE <<>>
    IN  IF \E i \in 1..Len(a) : ~is_str(a[i]) THEN NoneV
        ELSE Some([i \in 1..Len(a) |-> a[i].s])

\* `.collect::<Option<BTreeMap<_, _>>>()` over the entries of the table.
declared_features(t) ==
    IF \E i \in 1..Len(t) : ~feature_list(t[i].v).some THEN NoneV
    ELSE Some([k \in Keys(t) |-> feature_list(get(t, k).v).v])

\* `BTreeMap::insert`: the value of a key already there is replaced.
map_insert(m, k, v) == [x \in DOMAIN m \cup {k} |-> IF x = k THEN v ELSE m[x]]

\* `features.extend(...)` with one section's optional dependencies.
RECURSIVE extend_optional(_, _)
extend_optional(m, deps) ==
    IF deps = <<>> THEN m
    ELSE LET key == Head(deps).k
             dep_item == Head(deps).v
         IN  extend_optional(
                 IF is_table_like(dep_item) /\ is_optional(dep_item)
                 THEN map_insert(m, key, <<>>) ELSE m,
                 Tail(deps))

RECURSIVE extend_sections(_, _)
extend_sections(m, sections) ==
    IF sections = <<>> THEN m
    ELSE extend_sections(extend_optional(m, Head(sections).table.entries), Tail(sections))

features(data) ==
    LET item_ == get(data.entries, "features")
        declared == IF ~item_.some \/ item_.v.t = "none" THEN Some(<<>>)
                    ELSE IF item_.v.t = "table" THEN declared_features(item_.v.entries)
                    ELSE NoneV
    IN  IF ~declared.some THEN Err(invalid_cargo_config)
        ELSE Ok(extend_sections(declared.v, get_sections(data)))

-----------------------------------------------------------------------------
(* LocalManifest::gc_dep *)

\* cargo::core::FeatureValue::new on the tokens of a feature string: split
\* at the first '/', a '?' before it marks a weak reference; without '/',
\* the prefix "dep:" marks an explicit dependency activation.
FeatureValue_new(feature) ==
    LET slashes == {i \in 1..Len(feature) : feature[i] = "/"}
    IN  IF slashes # {}
        THEN LET pos == Min(slashes)
                 dep_ == SubSeq(feature, 1, pos - 1)
                 weak == Len(dep_) > 0 /\ dep_[Len(dep_)] = "?"
             IN  [kind |-> "DepFeature",
                  dep_name |-> IF weak THEN SubSeq(dep_, 1, Len(dep_) - 1) ELSE dep_,
                  dep_feature |-> SubSeq(feature, pos + 1, Len(feature)),
                  weak |-> weak]
        ELSE IF Len(feature) > 0 /\ feature[1] = "dep:"
        THEN [kind |-> "Dep", dep_name |-> Tail(feature)]
        ELSE [kind |-> "Feature", dep_name |-> feature]

\* The arrays of a [features] table that is a block table.
feature_arrays(data) ==
    LET item_ == get(data.entries, "features")
    IN  IF item_.some /\ item_.v.t = "table"
        THEN SelectSeq(item_.v.entries, LAMBDA e : is_array(e.v))
        ELSE <<>>

\* Variant: a reference to a sub-feature counts as an explicit activation.
is_explicit_dep_activation_any_reference(data, dep_key) ==
    \E i \in 1..Len(feature_arrays(data)) :
        LET values == feature_arrays(data)[i].v.elems
        IN  \E j \in 1..Len(values) :
                /\ is_str(values[j])
                /\ FeatureValue_new(values[j].s).kind \in {"Dep", "DepFeature"}
                /\ FeatureValue_new(values[j].s).dep_name = <<dep_key>>

is_explicit_dep_activation(data, dep_key) ==
    \E i \in 1..Len(feature_arrays(data)) :
        LET values == feature_arrays(data)[i].v.elems
        IN  \E j \in 1..Len(values) :
                /\ is_str(values[j])
                /\ FeatureValue_new(values[j].s).kind = "Dep"
                /\ FeatureValue_new(values[j].s).dep_name = <<dep_key>>

\* The loop of dep_status: only sections that are block tables are looked
\* at; the first optional entry ends the loop.
RECURSIVE dep_status_loop(_, _, _)
dep_status_loop(sections, dep_key, status) ==
    IF sections = <<>> THEN status
    ELSE LET tbl == Head(sections).table
             dep_item == IF tbl.t = "table" THEN get(tbl.entries, dep_key) ELSE NoneV
         IN  IF dep_item.some
             THEN IF is_optional(dep_item.v) THEN "Optional"
                  ELSE dep_status_loop(Tail(sections), dep_key, "Required")
             ELSE dep_status_loop(Tail(sections), dep_key, status)

dep_status(data, dep_key) == dep_status_loop(get_sections(data), dep_key, "None")

\* Variant: a reference to a sub-feature is never pruned.
in_remove_list_keeps_sub_features(value, dep_key, status, explicit_dep_activation) ==
    /\ is_str(value)
    /\ status # "Optional"
    /\ LET fv == FeatureValue_new(value.s)
       IN  /\ \/ fv.kind = "Feature" /\ ~explicit_dep_activation
              \/ fv.kind = "Dep"
           /\ fv.dep_name = <<dep_key>>

\* Whether remove_feature_activation puts the index of this element on its
\* remove list.
in_remove_list(value, dep_key, status, explicit_dep_activation) ==
    /\ is_str(value)
    /\ LET fv == FeatureValue_new(value.s)
       IN  CASE status = "None" ->
                   /\ \/ fv.kind = "Feature" /\ ~explicit_dep_activation
                      \/ fv.kind = "Dep"
                      \/ fv.kind = "DepFeature"
                   /\ fv.dep_name = <<dep_key>>
             [] status = "Optional" -> FALSE
             [] status = "Required" ->
                   /\ \/ fv.kind = "Feature" /\ ~explicit_dep_activation
                      \/ fv.kind = "Dep"
                   /\ fv.dep_name = <<dep_key>>

\* `Array::remove(idx)`
remove_at(elems, idx) == SubSeq(elems, 1, idx - 1) \o SubSeq(elems, idx + 1, Len(elems))

\* The removals, applied from the last index of the remove list to the first.
RECURSIVE remove_rev(_, _)
remove_rev(elems, remove_list) ==
    IF remove_list = <<>> THEN elems
    ELSE remove_rev(remove_at(elems, remove_list[Len(remove_list)]),
                    SubSeq(remove_list, 1, Len(remove_list) - 1))

remove_feature_activation(feature_values, dep_key, status, explicit_dep_activation) ==
    LET remove_list ==
            SelectSeq([i \in 1..Len(feature_values) |-> i],
                      LAMBDA idx : in_remove_list(feature_values[idx], dep_key, status,
                                                  explicit_dep_activation))
    IN  remove_rev(feature_values, remove_list)

gc_dep(data, dep_key) ==
    LET explicit_dep_activation == is_explicit_dep_activation(data, dep_key)
        status == dep_status(data, dep_key)
        item_ == get(data.entries, "features")
    IN  IF item_.some /\ item_.v.t = "table"
        THEN LET feature_table == item_.v.entries
                 pruned == [i \in 1..Len(feature_table) |->
                     IF is_array(feature_table[i].v)
                     THEN [feature_table[i] EXCEPT !.v =
                              Arr(remove_feature_activation(feature_table[i].v.elems, dep_key,
                                                            status, explicit_dep_activation))]
                     ELSE feature_table[i]]
             IN  [data EXCEPT !.entries = set_value(data.entries, "features", Table(pruned))]
        ELSE data

-----------------------------------------------------------------------------
(* Args::get_section *)

\* Variant: a target is ignored.
get_section_ignores_target(args) ==
    IF args.dev THEN <<"dev-dependencies">>
    ELSE IF args.build THEN <<"build-dependencies">>
    ELSE <<"dependencies">>

get_section(args) ==
    IF args.dev THEN <<"dev-dependencies">>
    ELSE IF args.build THEN <<"build-dependencies">>
    ELSE IF args.target.some THEN <<"target", args.target.v, "dependencies">>
    ELSE <<"dependencies">>

-----------------------------------------------------------------------------
(* Inputs: Dependency values as the constructors can build them *)

RawVersions == {<<"1">>, <<"1", "+", "m">>, <<"2", "+", "m", "+", "n">>}
Roots == {<<"/">>, <<"/", "c">>}
\* The crate root itself, a directory below it, a sibling of it, and a
\* directory whose name holds a backslash.
DepPaths == {<<"/", "c">>, <<"/", "c", "y">>, <<"/", "x">>, <<"/", "c", "a\\b">>}
GitUrl == "git://git.git"

RegistrySources == {RegistrySource_new(v) : v \in RawVersions}

PathSources ==
    {PathSource_new(p) : p \in DepPaths}
    \cup {PathSource_set_version(PathSource_new(p), v) : p \in DepPaths, v \in RawVersions}

GitSources ==
    {GitSource_new(GitUrl), set_branch(GitSource_new(GitUrl), "main"),
     set_tag(GitSource_new(GitUrl), "v1"), set_rev(GitSource_new(GitUrl), "abc")}

OptSources == {NoneV} \cup {Some(src) : src \in RegistrySources \cup PathSources \cup GitSources}
OptBools == {NoneV, Some(TRUE), Some(FALSE)}
OptFeatures == {NoneV, Some(<<>>), Some(<<"x">>), Some(<<"y", "x">>)}
OptRegistries == {NoneV, Some("alt")}
OptRenames == {NoneV, Some("a1")}

TomlDeps ==
    {[name |-> "a", optional |-> o, features |-> f, default_features |-> df,
      source |-> src, registry |-> r, rename |-> rn, available_features |-> af] :
        o \in OptBools, f \in OptFeatures, df \in OptBools, src \in OptSources,
        r \in OptRegistries, rn \in OptRenames, af \in {{}, {"x"}}}

NoDep == Dependency_new("")
NoItem == ItemNone
NoBack == Err([kind |-> "not_run"])
NoOp == [name |-> "none", n |-> 0]
EmptyDoc == Table(<<>>)
NoOut == Err([kind |-> "not_run"])

-----------------------------------------------------------------------------
(* The manifest being edited *)

MaxOps == 2

\* A key/value pair as written by hand.
HW(k, v) == [k |-> k, v |-> v, raw |-> TRUE]

PackageTable == Table(<<HW("name", Str("p")), HW("version", Str(<<"0">>))>>)

\* Dependency entries a manifest may hold before the tool runs: short form,
\* one-key table, tables with optional / default-features / features and a
\* key the tool does not know, a renamed package in a block table, and
\* entries cargo itself would reject (two git references, a package that is
\* not a string, a feature that is not a string, a node that is no entry).
ExistingEntries ==
    <<Str(<<"1">>),
     InlineTable(<<HW("version", Str(<<"1">>))>>),
     InlineTable(<<HW("version", Str(<<"1">>)), HW("features", Arr(<<Str("x"), Str("z")>>)),
                   HW("optional", Bool(TRUE)), HW("extra", Str("keep"))>>),
     InlineTable(<<HW("git", Str("git://old.git")), HW("branch", Str("dev")),
                   HW("tag", Str("v0")), HW("default-features", Bool(FALSE))>>),
     Table(<<HW("path", Str(<<"..", "x">>)), HW("version", Str(<<"1">>)),
             HW("registry", Str("alt")), HW("package", Str("a"))>>),
     InlineTable(<<HW("version", Str(<<"1">>)), HW("package", Str("a"))>>),
     InlineTable(<<HW("version", Str(<<"1">>)), HW("package", Integer(1))>>),
     InlineTable(<<HW("version", Str(<<"1">>)),
                   HW("features", Arr(<<Str("z"), Integer(1)>>))>>),
     Integer(1)>>

\* The entries that name package "a" while stored under another key.
RenamedEntries == {i \in 1..Len(ExistingEntries) :
                      /\ is_table_like(ExistingEntries[i])
                      /\ get(ExistingEntries[i].entries, "package") = Some(Str("a"))}

\* The root table before the tool runs: no `dependencies`, a block table or
\* an inline table with one entry, or a `dependencies` that is not a table,
\* at top level or, next to a [features] table, under a target.
IsInitialDoc(d) ==
    \/ d = Table(<<HW("package", PackageTable)>>)
    \/ \E i \in 1..Len(ExistingEntries) :
          d = Table(<<HW("package", PackageTable),
                      HW("dependencies", Table(<<HW("a", ExistingEntries[i])>>))>>)
    \/ \E i \in RenamedEntries :
          d = Table(<<HW("package", PackageTable),
                      HW("dependencies", Table(<<HW("a1", ExistingEntries[i])>>))>>)
    \/ d = Table(<<HW("package", PackageTable),
                   HW("dependencies", InlineTable(<<HW("a", Str(<<"1">>))>>))>>)
    \/ d = Table(<<HW("package", PackageTable), HW("dependencies", Integer(1))>>)
    \/ d = Table(<<HW("package", PackageTable),
                   HW("features", Table(<<HW("x", Arr(<<Str(<<"a">>)>>))>>)),
                   HW("target", Table(<<HW("t", Table(<<HW("dependencies", Integer(1))>>))>>))>>)

\* What the command line can ask for.  A source input is the constructor call;
\* raw is the version requirement as given, before normalisation.
SourceInputs ==
    {[raw |-> NoneV, source |-> NoneV]}
    \cup {[raw |-> Some(v), source |-> Some(RegistrySource_new(v))] : v \in {<<"1">>, <<"2", "+", "m">>}}
    \cup {[raw |-> NoneV, source |-> Some(PathSource_new(<<"/", "x">>))],
          [raw |-> Some(<<"2", "+", "m">>),
           source |-> Some(PathSource_set_version(PathSource_new(<<"/", "x">>), <<"2", "+", "m">>))]}
    \cup {[raw |-> NoneV, source |-> Some(src)] : src \in GitSources}

VersionedInputs == {si \in SourceInputs : si.raw = Some(<<"1">>)}

InsertRenames == {NoneV, Some("a1"), Some("a2")}
InsertFeatures == {NoneV, Some(<<"x">>), Some(<<"y", "x">>)}

Built(si, o, df, f, r, rn) ==
    [raw |-> si.raw,
     d |-> [Dependency_new("a") EXCEPT !.source = si.source, !.optional = o,
                !.default_features = df, !.features = f, !.registry = r, !.rename = rn]]

\* Every source with every rename; a registry with and without a version to
\* go with; optional, default-features and features two at a time, merged
\* into an entry with and without a new source.
InsertInputs ==
    {Built(si, NoneV, NoneV, NoneV, NoneV, rn) : si \in SourceInputs, rn \in InsertRenames}
    \cup {Built(si, NoneV, NoneV, NoneV, Some("alt"), NoneV) :
              si \in {x \in SourceInputs : x.source \notin {Some(s) : s \in GitSources \ {GitSource_new(GitUrl)}}}}
    \cup {Built(si, o, NoneV, f, NoneV, NoneV) :
              si \in VersionedInputs \cup {[raw |-> NoneV, source |-> NoneV]},
              o \in OptBools, f \in InsertFeatures}
    \cup {Built(si, o, df, NoneV, NoneV, NoneV) :
              si \in VersionedInputs, o \in OptBools, df \in OptBools}

DefaultSection == [dev |-> FALSE, build |-> FALSE, target |-> NoneV]

OtherSections ==
    {[dev |-> TRUE, build |-> FALSE, target |-> NoneV],
     [dev |-> FALSE, build |-> TRUE, target |-> NoneV],
     [dev |-> FALSE, build |-> FALSE, target |-> Some("t")]}

\* Every input goes to [dependencies]; the other sections get a registry and
\* a git dependency.
Commands ==
    {[args |-> DefaultSection, input |-> i] : i \in InsertInputs}
    \cup {[args |-> a, input |-> Built(si, NoneV, NoneV, NoneV, NoneV, NoneV)] :
              a \in OtherSections,
              si \in {x \in SourceInputs : x.source \in {Some(GitSource_new(GitUrl)),
                                                          Some(RegistrySource_new(<<"2", "+", "m">>))}}}

Init ==
    /\ IsInitialDoc(doc)
    /\ pre = doc
    /\ op = NoOp
    /\ crate_root = <<"/", "c">>
    /\ dep = NoDep /\ item = NoItem /\ back = NoBack /\ item2 = NoItem /\ pc = "idle"
    /\ file = doc /\ out = NoOut

\* One call of insert_into_table at the section the arguments select; again
\* tells that the call before it had the same arguments.
InsertIntoTable ==
    \E cmd \in Commands :
        LET args == cmd.args
            input == cmd.input
            table_path == get_section(args)
            result == insert_into_table(doc, table_path, input.d, crate_root)
        IN  /\ op.n < MaxOps
            /\ pre' = doc
            /\ doc' = result.v
            /\ op' = [name |-> "insert_into_table", n |-> op.n + 1, args |-> args,
                      table_path |-> table_path, dep |-> input.d, raw |-> input.raw,
                      ok |-> result.ok,
                      err |-> IF result.ok THEN NoneV ELSE Some(result.err),
                      again |-> /\ op.name = "insert_into_table"
                                /\ op.args = args /\ op.dep = input.d]
            /\ UNCHANGED <<crate_root, dep, item, back, item2, pc, file, out>>

Next == InsertIntoTable

Spec == Init /\ [][Next]_vars

-----------------------------------------------------------------------------
(* Serialise, parse, serialise again: the sequence tests::verify_roundtrip runs *)

InitToml ==
    /\ dep \in TomlDeps
    /\ crate_root \in Roots
    /\ item = NoItem /\ back = NoBack /\ item2 = NoItem
    /\ pc = "start"
    /\ doc = EmptyDoc /\ pre = EmptyDoc /\ op = NoOp
    /\ file = EmptyDoc /\ out = NoOut

ToToml ==
    /\ pc = "start"
    /\ item' = to_toml(dep, crate_root)
    /\ pc' = "serialised"
    /\ UNCHANGED <<doc, pre, op, crate_root, dep, back, item2, file, out>>

FromToml ==
    /\ pc = "serialised"
    /\ back' = from_toml(crate_root, toml_key(dep), item)
    /\ pc' = "parsed"
    /\ UNCHANGED <<doc, pre, op, crate_root, dep, item, item2, file, out>>

ReToToml ==
    /\ pc = "parsed"
    /\ back.ok
    /\ item2' = to_toml(back.v, crate_root)
    /\ pc' = "reserialised"
    /\ UNCHANGED <<doc, pre, op, crate_root, dep, item, back, file, out>>

NextToml == ToToml \/ FromToml \/ ReToToml

SpecToml == InitToml /\ [][NextToml]_vars

-----------------------------------------------------------------------------
(* Manifests with a [features] table, and the calls that read or prune it *)

\* Feature strings as their tokens.
FBare(n) == Str(<<n>>)
FDep(n) == Str(<<"dep:", n>>)
FSub(n, f) == Str(<<n, "/", f>>)
FWeak(n, f) == Str(<<n, "?", "/", f>>)

\* Requirement lists: bare names (one twice), sub-feature references in the
\* plain, weak and prefixed forms, explicit activations, and a list with
\* an element that is not a string.
FeatureLists ==
    [bare |-> <<FBare("foo"), FBare("other"), FBare("foo"), FBare("bar")>>,
     sub |-> <<FSub("foo", "extra"), FBare("foobar"), FWeak("foo", "extra"),
               Str(<<"dep:", "foo", "/", "extra">>), FSub("bar", "extra")>>,
     explicit |-> <<FDep("foo"), FSub("bar", "extra"), FDep("bar")>>,
     mixed |-> <<Integer(1), FBare("foo"), FDep("other")>>,
     own |-> <<FBare("x"), FSub("foo", "extra")>>]

FeatureEntry(k, choice) ==
    CASE choice = "absent" -> <<>>
      [] choice = "string" -> <<HW(k, Str(<<"foo">>))>>
      [] choice = "integer" -> <<HW(k, Integer(1))>>
      [] OTHER -> <<HW(k, Arr(FeatureLists[choice]))>>

\* What the root holds under `features`: nothing, a block table built from
\* one choice per feature name, an inline table, or a value.
FeatureChoices ==
    [shape : {"table"}, default : {"absent", "bare", "mixed"}, x : {"absent", "sub"},
     e : {"absent", "explicit"}, foo : {"absent", "own"}, s : {"absent", "string", "integer"}]
    \cup [shape : {"absent", "inline table", "integer"}, default : {"bare"}, x : {"sub"},
          e : {"absent"}, foo : {"absent"}, s : {"absent"}]

FeatureEntries(c) ==
    FeatureEntry("default", c.default) \o FeatureEntry("x", c.x) \o FeatureEntry("e", c.e)
    \o FeatureEntry("foo", c.foo) \o FeatureEntry("s", c.s)

FeaturesPart(c) ==
    CASE c.shape = "absent" -> <<>>
      [] c.shape = "table" -> <<HW("features", Table(FeatureEntries(c)))>>
      [] c.shape = "inline table" -> <<HW("features", InlineTable(FeatureEntries(c)))>>
      [] c.shape = "integer" -> <<HW("features", Integer(1))>>

Required1 == Str(<<"1">>)
Optional1 == InlineTable(<<HW("version", Str(<<"1">>)), HW("optional", Bool(TRUE))>>)
NotOptional1 == InlineTable(<<HW("version", Str(<<"1">>)), HW("optional", Bool(FALSE))>>)
OptionalString1 == InlineTable(<<HW("version", Str(<<"1">>)), HW("optional", Str("true"))>>)

\* The dependency sections of the root, in document order: none; foo
\* required, optional, explicitly not optional, or absent beside bar; foo
\* required in one section and optional under a target; sections written as
\* inline tables; every kind at top level and under two targets; entries
\* under `dependencies` and `target` that are not tables.
SectionVariants ==
    <<<<>>,
      <<HW("dependencies", Table(<<HW("foo", Required1)>>))>>,
      <<HW("dependencies", Table(<<HW("foo", Optional1)>>))>>,
      <<HW("dependencies", Table(<<HW("bar", Optional1), HW("foo", NotOptional1)>>))>>,
      <<HW("dependencies", Table(<<HW("bar", Required1)>>))>>,
      <<HW("dev-dependencies", Table(<<HW("foo", Required1)>>)),
        HW("target", Table(<<HW("t", Table(<<HW("dependencies",
                                                Table(<<HW("foo", Optional1)>>))>>))>>))>>,
      <<HW("dependencies", InlineTable(<<HW("foo", Required1)>>))>>,
      <<HW("dependencies", InlineTable(<<HW("foo", Optional1)>>))>>,
      <<HW("target", Table(<<
            HW("t1", Table(<<HW("build-dependencies", Table(<<HW("foo", Required1)>>)),
                             HW("dependencies", Table(<<HW("bar", Optional1)>>))>>)),
            HW("t2", Table(<<HW("dev-dependencies", Table(<<HW("x", Optional1)>>)),
                             HW("dependencies", InlineTable(<<HW("bar", Required1)>>)),
                             HW("build-dependencies", Integer(1))>>)),
            HW("t3", Integer(1))>>)),
        HW("build-dependencies", Table(<<HW("bar", Required1)>>)),
        HW("dev-dependencies", Table(<<HW("foo", Required1)>>)),
        HW("dependencies", Table(<<HW("e", Optional1)>>))>>,
      <<HW("dependencies", Integer(1)), HW("target", Str("t"))>>,
      <<HW("dependencies", Table(<<HW("foo", OptionalString1), HW("s", Optional1)>>))>>>>

GcDoc(c, i) ==
    Table(<<HW("package", PackageTable)>> \o FeaturesPart(c) \o SectionVariants[i])

DepKeys == {"foo", "bar"}

InitGc ==
    /\ \E c \in FeatureChoices, i \in 1..Len(SectionVariants) : doc = GcDoc(c, i)
    /\ pre = doc
    /\ op = NoOp
    /\ crate_root = <<"/", "c">>
    /\ dep = NoDep /\ item = NoItem /\ back = NoBack /\ item2 = NoItem /\ pc = "idle"
    /\ file = doc /\ out = NoOut

\* gc_dep(dep_key); status and explicit are what it computed on entry, again
\* tells that the call before it was gc_dep with the same key.
GcDep ==
    \E dep_key \in DepKeys :
        /\ op.n < MaxOps
        /\ pre' = doc
        /\ doc' = gc_dep(doc, dep_key)
        /\ op' = [name |-> "gc_dep", n |-> op.n + 1, dep_key |-> dep_key,
                  status |-> dep_status(doc, dep_key),
                  explicit |-> is_explicit_dep_activation(doc, dep_key),
                  again |-> op.name = "gc_dep" /\ op.dep_key = dep_key]
        /\ UNCHANGED <<crate_root, dep, item, back, item2, pc, file, out>>

Features ==
    /\ op.n < MaxOps
    /\ pre' = doc
    /\ out' = features(doc)
    /\ op' = [name |-> "features", n |-> op.n + 1]
    /\ UNCHANGED <<doc, crate_root, dep, item, back, item2, pc, file>>

GetSections ==
    /\ op.n < MaxOps
    /\ pre' = doc
    /\ out' = get_sections(doc)
    /\ op' = [name |-> "get_sections", n |-> op.n + 1]
    /\ UNCHANGED <<doc, crate_root, dep, item, back, item2, pc, file>>

NextGc == GcDep \/ Features \/ GetSections

SpecGc == InitGc /\ [][NextGc]_vars

-----------------------------------------------------------------------------
(* Manifest::get_table on those manifests *)

\* Paths to sections that exist, that are absent, and that lead through a
\* value that is not a table.
LookupPaths ==
    {<<"dependencies">>, <<"dev-dependencies">>, <<"features">>,
     <<"target", "t", "dependencies">>, <<"target", "t1", "build-dependencies">>,
     <<"target", "t2", "build-dependencies">>, <<"target", "t3", "dependencies">>,
     <<"target", "t4", "dependencies">>}

GetTable ==
    \E table_path \in LookupPaths :
        /\ op.n < MaxOps
        /\ pre' = doc
        /\ out' = get_table(doc, table_path)
        /\ op' = [name |-> "get_table", n |-> op.n + 1, table_path |-> table_path]
        /\ UNCHANGED <<doc, crate_root, dep, item, back, item2, pc, file>>

NextLookup == GetTable

SpecLookup == InitGc /\ [][NextLookup]_vars

-----------------------------------------------------------------------------
(* LocalManifest::write and Args::parse_dependencies *)

\* Variant: the file is stored before the document is looked at.
write_before_check(data, on_disk, stored) ==
    IF ~contains_key(data.entries, "package") /\ ~contains_key(data.entries, "project")
    THEN IF contains_key(data.entries, "workspace")
         THEN [ok |-> FALSE, err |-> [kind |-> "virtual_manifest"], file |-> data, fs |-> TRUE]
         ELSE [ok |-> FALSE, err |-> [kind |-> "missing_package_or_project"],
               file |-> data, fs |-> TRUE]
    ELSE [ok |-> TRUE, file |-> data, fs |-> TRUE]

\* Variant: only a `package` table counts as the package identity.
write_package_only(data, on_disk, stored) ==
    IF ~contains_key(data.entries, "package")
    THEN IF contains_key(data.entries, "workspace")
         THEN [ok |-> FALSE, err |-> [kind |-> "virtual_manifest"], file |-> on_disk, fs |-> FALSE]
         ELSE [ok |-> FALSE, err |-> [kind |-> "missing_package_or_project"],
               file |-> on_disk, fs |-> FALSE]
    ELSE IF stored THEN [ok |-> TRUE, file |-> data, fs |-> TRUE]
    ELSE [ok |-> FALSE, err |-> [kind |-> "failed_to_write"], file |-> on_disk, fs |-> TRUE]

\* write(): the two refusals, then std::fs::write.  on_disk is the file as
\* it is, stored whether the file system takes the new contents; file is
\* the file afterwards and fs whether std::fs::write was called.
write(data, on_disk, stored) ==
    IF ~contains_key(data.entries, "package") /\ ~contains_key(data.entries, "project")
    THEN IF contains_key(data.entries, "workspace")
         THEN [ok |-> FALSE, err |-> [kind |-> "virtual_manifest"], file |-> on_disk, fs |-> FALSE]
         ELSE [ok |-> FALSE, err |-> [kind |-> "missing_package_or_project"],
               file |-> on_disk, fs |-> FALSE]
    ELSE IF stored THEN [ok |-> TRUE, file |-> data, fs |-> TRUE]
    ELSE [ok |-> FALSE, err |-> [kind |-> "failed_to_write"], file |-> on_disk, fs |-> TRUE]

resolve_bool_arg(yes, no) ==
    CASE yes /\ ~no -> Some(TRUE)
      [] ~yes /\ no -> Some(FALSE)
      [] ~yes /\ ~no -> NoneV

\* CrateSpec::resolve: a version requirement that does not parse is an error.
CrateSpec_resolve(crate_spec) ==
    IF crate_spec.kind = "pkgid" /\ crate_spec.version_req = Some(<<"invalid">>)
    THEN Err([kind |-> "invalid_version_req", name |-> crate_spec.name])
    ELSE Ok(crate_spec)

\* The version get_latest_dependency resolves from the registry.
LatestVersion == <<"9">>

parse_single_dependency(args, crate_spec) ==
    LET resolved == CrateSpec_resolve(crate_spec)
        with_registry(d) ==
            IF args.registry.some THEN [d EXCEPT !.registry = args.registry] ELSE d
    IN  IF ~resolved.ok THEN resolved
        ELSE IF crate_spec.kind = "pkgid" /\ crate_spec.version_req.some
        THEN IF args.git.some
             THEN Err([kind |-> "GitUrlWithVersion", url |-> args.git.v,
                       version |-> strip_semver_metadata(crate_spec.version_req.v)])
             ELSE Ok(with_registry(set_source(Dependency_new(crate_spec.name),
                                              RegistrySource_new(crate_spec.version_req.v))))
        ELSE IF crate_spec.kind = "pkgid"
        THEN IF args.git.some
             THEN Ok(with_registry(set_source(Dependency_new(crate_spec.name),
                                              GitSource_new(args.git.v))))
             ELSE Ok(with_registry(set_source(Dependency_new(crate_spec.name),
                                              RegistrySource_new(LatestVersion))))
        ELSE Ok(with_registry(set_source(Dependency_new(crate_spec.name),
                                         PathSource_new(crate_spec.path))))

populate_dependency(args, dependency) ==
    LET d == [dependency EXCEPT
                 !.optional = resolve_bool_arg(args.optional, args.no_optional),
                 !.default_features = resolve_bool_arg(args.default_features,
                                                       args.no_default_features)]
    IN  IF args.rename.some THEN [d EXCEPT !.rename = args.rename] ELSE d

\* `.map(...).collect::<Result<Vec<_>>>()`: the first error, or every value.
RECURSIVE collect_dependencies(_, _, _)
collect_dependencies(args, crates, requested_features) ==
    IF crates = <<>> THEN Ok(<<>>)
    ELSE LET x == parse_single_dependency(args, Head(crates))
         IN  IF ~x.ok THEN x
             ELSE LET rest == collect_dependencies(args, Tail(crates), requested_features)
                  IN  IF ~rest.ok THEN rest
                      ELSE Ok(<<[populate_dependency(args, x.v)
                                    EXCEPT !.features = requested_features]>> \o rest.v)

parse_dependencies(args, requested_features) ==
    IF Len(args.crates) > 1 /\ args.git.some
    THEN Err([kind |-> "MultipleCratesWithGitOrPathOrVers"])
    ELSE IF Len(args.crates) > 1 /\ args.rename.some
    THEN Err([kind |-> "MultipleCratesWithRename"])
    ELSE IF Len(args.crates) > 1 /\ args.features.some
    THEN Err([kind |-> "MultipleCratesWithFeatures"])
    ELSE collect_dependencies(args, args.crates, requested_features)

-----------------------------------------------------------------------------
(* One `cargo add` command after another on the manifest file *)

PkgId(name, version_req) == [kind |-> "pkgid", name |-> name, version_req |-> version_req]
PathSpec(name, path) == [kind |-> "path", name |-> name, path |-> path]

PlainArgs ==
    [crates |-> <<PkgId("a", NoneV)>>, git |-> NoneV, rename |-> NoneV, features |-> NoneV,
     registry |-> NoneV, optional |-> FALSE, no_optional |-> FALSE,
     default_features |-> FALSE, no_default_features |-> FALSE,
     dev |-> FALSE, build |-> FALSE, target |-> NoneV]

\* Commands that build one or two dependencies, and commands that fail while
\* building: a version that does not parse (first or second crate), a
\* version together with --git, several crates with --git, --rename or
\* --features.
CmdArgs ==
    {PlainArgs,
     [PlainArgs EXCEPT !.crates = <<PkgId("a", Some(<<"1", "+", "m">>))>>, !.optional = TRUE],
     [PlainArgs EXCEPT !.crates = <<PkgId("a", Some(<<"invalid">>))>>],
     [PlainArgs EXCEPT !.crates = <<PkgId("a", Some(<<"1">>))>>, !.git = Some(GitUrl)],
     [PlainArgs EXCEPT !.git = Some(GitUrl), !.dev = TRUE],
     [PlainArgs EXCEPT !.crates = <<PkgId("a", NoneV), PkgId("b", Some(<<"1">>))>>],
     [PlainArgs EXCEPT !.crates = <<PkgId("a", NoneV), PkgId("b", Some(<<"invalid">>))>>],
     [PlainArgs EXCEPT !.crates = <<PkgId("a", NoneV), PkgId("b", NoneV)>>, !.git = Some(GitUrl)],
     [PlainArgs EXCEPT !.crates = <<PkgId("a", NoneV), PkgId("b", NoneV)>>, !.rename = Some("a1")],
     [PlainArgs EXCEPT !.crates = <<PkgId("a", NoneV), PkgId("b", NoneV)>>,
                       !.features = Some(<<"x">>)],
     [PlainArgs EXCEPT !.rename = Some("a1"), !.features = Some(<<"x">>),
                       !.no_default_features = TRUE, !.registry = Some("alt")],
     [PlainArgs EXCEPT !.crates = <<PathSpec("a", <<"/", "x">>)>>, !.target = Some("t")]}

\* The file before the first command: a package with and without
\* dependencies, a `project` table, a root without either, a virtual
\* manifest, and roots where `dependencies` or `target` is not a table.
IsInitialFile(f) ==
    \/ f = Table(<<HW("package", PackageTable)>>)
    \/ f = Table(<<HW("package", PackageTable),
                   HW("dependencies", Table(<<HW("a", Str(<<"1">>))>>))>>)
    \/ f = Table(<<HW("project", PackageTable)>>)
    \/ f = Table(<<HW("dependencies", Table(<<HW("a", Str(<<"1">>))>>))>>)
    \/ f = Table(<<HW("workspace", Table(<<HW("members", Arr(<<Str("m")>>))>>))>>)
    \/ f = Table(<<HW("workspace", Table(<<>>)), HW("package", PackageTable)>>)
    \/ f = Table(<<HW("package", PackageTable), HW("dependencies", Integer(1)),
                   HW("target", Str("t"))>>)

InitCmd ==
    /\ IsInitialFile(file)
    /\ doc = EmptyDoc /\ pre = file
    /\ op = NoOp
    /\ crate_root = <<"/", "c">>
    /\ dep = NoDep /\ item = NoItem /\ back = NoBack /\ item2 = NoItem /\ out = NoOut
    /\ pc = "exited"

\* A command starts: LocalManifest::try_new reads the file.
Start ==
    \E args \in CmdArgs :
        /\ pc = "exited"
        /\ op.n < MaxOps
        /\ doc' = file
        /\ pre' = file
        /\ op' = [name |-> "add", n |-> op.n + 1, args |-> args, deps |-> <<>>, done |-> 0,
                  writes |-> 0, failed |-> "no", err |-> NoneV]
        /\ pc' = "loaded"
        /\ UNCHANGED <<crate_root, dep, item, back, item2, file, out>>

ParseDependencies ==
    /\ pc = "loaded"
    /\ LET deps == parse_dependencies(op.args, op.args.features)
       IN  IF deps.ok
           THEN /\ op' = [op EXCEPT !.deps = deps.v]
                /\ pc' = "built"
           ELSE /\ op' = [op EXCEPT !.failed = "build", !.err = Some(deps.err)]
                /\ pc' = "exited"
    /\ UNCHANGED <<doc, pre, crate_root, dep, item, back, item2, file, out>>

\* The next dependency built goes into the section the arguments select.
InsertNext ==
    /\ pc = "built"
    /\ op.done < Len(op.deps)
    /\ LET result == insert_into_table(doc, get_section(op.args), op.deps[op.done + 1],
                                       crate_root)
       IN  /\ doc' = result.v
           /\ IF result.ok
              THEN /\ op' = [op EXCEPT !.done = op.done + 1]
                   /\ pc' = "built"
              ELSE /\ op' = [op EXCEPT !.failed = "insert", !.err = Some(result.err)]
                   /\ pc' = "exited"
    /\ UNCHANGED <<pre, crate_root, dep, item, back, item2, file, out>>

\* Every dependency is in: write().
Write ==
    /\ pc = "built"
    /\ op.done = Len(op.deps)
    /\ \E stored \in BOOLEAN :
           LET result == write(doc, file, stored)
           IN  /\ file' = result.file
               /\ op' = [op EXCEPT !.writes = op.writes + (IF result.fs THEN 1 ELSE 0),
                                   !.failed = IF result.ok THEN "no" ELSE "write",
                                   !.err = IF result.ok THEN NoneV ELSE Some(result.err)]
               /\ pc' = "exited"
    /\ UNCHANGED <<doc, pre, crate_root, dep, item, back, item2, out>>

NextCmd == Start \/ ParseDependencies \/ InsertNext \/ Write

SpecCmd == InitCmd /\ [][NextCmd]_vars

-----------------------------------------------------------------------------
(* from_toml on the nodes a hand-written manifest can hold *)

\* One choice per recognised field: absent, of the expected type, or of
\* another type; for features also an array with an element of another type.
FieldChoices ==
    [package : {"absent", "ok", "bad"}, git : {"absent", "ok", "bad"},
     branch : {"absent", "ok", "bad"}, tag : {"absent", "bad"}, rev : {"absent", "ok"},
     path : {"absent", "ok", "bad"}, version : {"absent", "ok", "bad"},
     registry : {"absent", "ok", "bad"}, default_features : {"absent", "ok", "bad"},
     features : {"absent", "ok", "bad", "badelem"}, optional : {"absent", "ok", "bad"}]

FieldEntry(k, choice, good) ==
    CASE choice = "absent" -> <<>>
      [] choice = "ok" -> <<HW(k, good)>>
      [] choice = "bad" -> <<HW(k, Integer(1))>>
      [] choice = "badelem" -> <<HW(k, Arr(<<Str("x"), Integer(1)>>))>>

NodeEntries(c) ==
    FieldEntry("optional", c.optional, Bool(TRUE))
    \o FieldEntry("features", c.features, Arr(<<Str("x"), Str("y"), Str("x")>>))
    \o FieldEntry("default-features", c.default_features, Bool(FALSE))
    \o FieldEntry("registry", c.registry, Str("alt"))
    \o FieldEntry("version", c.version, Str(<<"1", "+", "m">>))
    \o FieldEntry("path", c.path, Str(<<"y">>))
    \o FieldEntry("rev", c.rev, Str("abc"))
    \o FieldEntry("tag", c.tag, Str("v1"))
    \o FieldEntry("branch", c.branch, Str("main"))
    \o FieldEntry("git", c.git, Str(GitUrl))
    \o FieldEntry("package", c.package, Str("p"))
    \o <<HW("extra", Str("keep"))>>

\* Nodes that are no table: version strings and values of other types.
PlainNodes ==
    <<Str(<<"1">>), Str(<<"1", "+", "m">>), Integer(1), Bool(TRUE), Arr(<<Str(<<"1">>)>>)>>

ReadKey == "a"

InitRead ==
    /\ \/ \E c \in FieldChoices : item = InlineTable(NodeEntries(c))
       \/ \E c \in {x \in FieldChoices : x.branch = "absent" /\ x.registry = "absent"
                                         /\ x.features # "ok"} :
              item = Table(NodeEntries(c))
       \/ \E i \in 1..Len(PlainNodes) : item = PlainNodes[i]
    /\ crate_root = <<"/", "c">>
    /\ back = NoBack
    /\ pc = "node"
    /\ dep = NoDep /\ item2 = NoItem
    /\ doc = EmptyDoc /\ pre = EmptyDoc /\ op = NoOp /\ file = EmptyDoc /\ out = NoOut

ReadNode ==
    /\ pc = "node"
    /\ back' = from_toml(crate_root, ReadKey, item)
    /\ pc' = "read"
    /\ UNCHANGED <<doc, pre, op, crate_root, dep, item, item2, file, out>>

NextRead == ReadNode

SpecRead == InitRead /\ [][NextRead]_vars

-----------------------------------------------------------------------------
(* Claims about gc_dep, features() and get_sections, checked under SpecGc *)

GcRan == op.name = "gc_dep"

\* K is an entry of some dependency section of the document.
PresentIn(data, K) ==
    \E i \in 1..Len(get_sections(data)) : contains_key(get_sections(data)[i].table.entries, K)

\* K is an entry with `optional = true` in some dependency section.
OptionalIn(data, K) ==
    \E i \in 1..Len(get_sections(data)) :
        LET e == get(get_sections(data)[i].table.entries, K)
        IN  e.some /\ item_get(e.v, "optional") = Some(Bool(TRUE))

\* The requirement lists of the [features] table, in document order.
ListsOf(data) ==
    LET f == get(data.entries, "features")
    IN  IF f.some /\ f.v.t = "table"
        THEN SelectSeq(f.v.entries, LAMBDA e : e.v.t = "array")
        ELSE <<>>

HasEntry(data, e) ==
    \E i \in 1..Len(ListsOf(data)) :
        \E j \in 1..Len(ListsOf(data)[i].v.elems) : ListsOf(data)[i].v.elems[j] = e

IsSubFeatureOf(e, K) == e.t = "string" /\ Len(e.s) >= 3 /\ e.s[1] = K /\ e.s[2] = "/"
IsWeakSubFeatureOf(e, K) ==
    e.t = "string" /\ Len(e.s) >= 4 /\ e.s[1] = K /\ e.s[2] = "?" /\ e.s[3] = "/"
IsBareGone(data, e, K) == e = FBare(K) /\ ~HasEntry(data, FDep(K))

\* The document with every requirement list reduced to the entries Keep
\* accepts, in their order, and nothing else changed.
Filtered(data, Keep(_)) ==
    LET f == get(data.entries, "features")
    IN  IF f.some /\ f.v.t = "table"
        THEN [data EXCEPT !.entries = set_value(data.entries, "features",
                 Table([i \in 1..Len(f.v.entries) |->
                     IF f.v.entries[i].v.t = "array"
                     THEN [f.v.entries[i] EXCEPT !.v = Arr(SelectSeq(f.v.entries[i].v.elems, Keep))]
                     ELSE f.v.entries[i]]))]
        ELSE data

\* C11 as stated: gc_dep for K present in no section removes exactly 'dep:K',
\* 'K/<sub-feature>' and, when no 'dep:K' entry exists in any list, bare 'K';
\* every other entry stays in its original relative order.
C11_RemovedExactlyWhenAbsent ==
    (GcRan /\ ~PresentIn(pre, op.dep_key)) =>
        doc = Filtered(pre, LAMBDA e : ~(\/ e = FDep(op.dep_key)
                                         \/ IsSubFeatureOf(e, op.dep_key)
                                         \/ IsBareGone(pre, e, op.dep_key)))

\* C11 amended: the weak references 'K?/<sub-feature>' are removed as well.
C11_RemovedWithWeakWhenAbsent ==
    (GcRan /\ ~PresentIn(pre, op.dep_key)) =>
        doc = Filtered(pre, LAMBDA e : ~(\/ e = FDep(op.dep_key)
                                         \/ IsSubFeatureOf(e, op.dep_key)
                                         \/ IsWeakSubFeatureOf(e, op.dep_key)
                                         \/ IsBareGone(pre, e, op.dep_key)))

\* gc_dep("foo") ran on a manifest without foo whose lists held bare names
\* and sub-feature references, and both kinds are gone while "other" stayed.
C11_Witness ==
    /\ GcRan /\ op.dep_key = "foo" /\ ~PresentIn(pre, "foo")
    /\ HasEntry(pre, FBare("foo")) /\ HasEntry(pre, FSub("foo", "extra"))
    /\ ~HasEntry(pre, FDep("foo"))
    /\ ~HasEntry(doc, FBare("foo")) /\ ~HasEntry(doc, FSub("foo", "extra"))
    /\ HasEntry(doc, FBare("other")) /\ HasEntry(doc, FBare("foobar"))

\* C12: gc_dep for K still present and optional nowhere removes exactly
\* 'dep:K' and, when no 'dep:K' entry exists in any list, bare 'K'; every
\* 'K/<sub-feature>' entry and every entry about another name stays, in order.
C12_RequiredKeepsSubFeatures ==
    (GcRan /\ PresentIn(pre, op.dep_key) /\ ~OptionalIn(pre, op.dep_key)) =>
        doc = Filtered(pre, LAMBDA e : ~(\/ e = FDep(op.dep_key)
                                         \/ IsBareGone(pre, e, op.dep_key)))

\* C13: gc_dep for K still optional in at least one section leaves the
\* whole [features] table unchanged.
C13_OptionalLeavesFeaturesAlone ==
    (GcRan /\ OptionalIn(pre, op.dep_key)) =>
        get(doc.entries, "features") = get(pre.entries, "features")

FeaturesRan == op.name = "features"

\* The [features] entry of the document, when there is one.
DeclaredTable == get(doc.entries, "features")

\* The document keys of the dependencies that are optional in some section.
OptionalKeys ==
    {k \in {"foo", "bar", "x", "e", "s"} : OptionalIn(doc, k)}

StringsOf(a) == [i \in 1..Len(a.elems) |-> a.elems[i].s]

\* C14: features() returns every declared feature with its declared list,
\* adds every optional dependency's key with an empty list only when no
\* feature of that name is declared, and never replaces a declared list.
C14_DeclaredFeaturesWin ==
    (FeaturesRan /\ out.ok) =>
        LET declared == IF DeclaredTable.some THEN DeclaredTable.v.entries ELSE <<>>
        IN  /\ DOMAIN out.v = Keys(declared) \cup OptionalKeys
            /\ \A i \in 1..Len(declared) :
                   declared[i].v.t = "array" => out.v[declared[i].k] = StringsOf(declared[i].v)
            /\ \A k \in OptionalKeys \ Keys(declared) : out.v[k] = <<>>

AllStrings(v) == v.t = "array" /\ \A i \in 1..Len(v.elems) : v.elems[i].t = "string"

\* C15: features() fails with the invalid-config error whenever the
\* [features] entry is not a table or any value in it is anything other than
\* an array whose elements are all strings.
C15_InvalidFeaturesRejected ==
    (/\ FeaturesRan
     /\ DeclaredTable.some
     /\ \/ DeclaredTable.v.t # "table"
        \/ \E i \in 1..Len(DeclaredTable.v.entries) : ~AllStrings(DeclaredTable.v.entries[i].v))
    => (~out.ok /\ out.err = invalid_cargo_config)

GetSectionsRan == op.name = "get_sections"

\* The names under `target`, in document order.
TargetNames ==
    LET target == get(doc.entries, "target")
    IN  IF target.some /\ target.v.t \in {"table", "inline table"}
        THEN [i \in 1..Len(target.v.entries) |-> target.v.entries[i].k]
        ELSE <<>>

RECURSIVE Flatten(_)
Flatten(seqs) == IF seqs = <<>> THEN <<>> ELSE Head(seqs) \o Flatten(Tail(seqs))

Kinds == <<"dependencies", "dev-dependencies", "build-dependencies">>

\* The pairs (path, node) for the paths that lead to a table-like node.
PresentSections(paths) ==
    LET present == SelectSeq(paths, LAMBDA p : get_table(doc, p).ok)
    IN  [i \in 1..Len(present) |-> [path |-> present[i], table |-> get_table(doc, present[i]).v]]

TopLevelThenTargets ==
    [i \in 1..3 |-> <<Kinds[i]>>]
    \o Flatten([t \in 1..Len(TargetNames) |->
                   [i \in 1..3 |-> <<"target", TargetNames[t], Kinds[i]>>]])

KindByKind ==
    Flatten([i \in 1..3 |->
                <<<<Kinds[i]>>>> \o [t \in 1..Len(TargetNames) |-> <<"target", TargetNames[t], Kinds[i]>>]])

-----------------------------------------------------------------------------
(* Claims about a whole command and about write(), checked under SpecCmd *)

CommandRan == op.name = "add"

\* write() was the last call of the command.
WriteRan == CommandRan /\ pc = "exited" /\ op.failed \in {"no", "write"}

HasIdentity(data) == "package" \in Keys(data.entries) \/ "project" \in Keys(data.entries)

C18_WriteNeedsIdentity ==
    WriteRan =>
        IF ~HasIdentity(doc)
        THEN /\ op.failed = "write" /\ op.writes = 0 /\ file = pre
             /\ op.err.v.kind = IF "workspace" \in Keys(doc.entries)
                                THEN "virtual_manifest" ELSE "missing_package_or_project"
        ELSE /\ op.writes = 1
             /\ op.failed = "write" => op.err.v.kind = "failed_to_write"

\* write() refused a virtual manifest that holds a freshly inserted
\* dependency in memory.
C18_Witness ==
    /\ WriteRan /\ op.failed = "write" /\ op.err.v.kind = "virtual_manifest"
    /\ contains_key(doc.entries, "dependencies") /\ ~contains_key(file.entries, "dependencies")

-----------------------------------------------------------------------------
(* Claims about to_toml and from_toml, checked under SpecToml *)

EqExceptAvailable(d1, d2) ==
    /\ d1.name = d2.name
    /\ d1.optional = d2.optional
    /\ d1.features = d2.features
    /\ d1.default_features = d2.default_features
    /\ d1.source = d2.source
    /\ d1.registry = d2.registry
    /\ d1.rename = d2.rename

Parsed == pc \in {"parsed", "reserialised"}

\* C1 as stated: for every Dependency d, with or without a source, and every
\* absolute base path, from_toml of to_toml(d) succeeds and returns a
\* dependency equal to d in every field except available_features.
C1_RoundTripEveryDependency ==
    Parsed => back.ok /\ EqExceptAvailable(back.v, dep)

\* The dependencies to_toml writes without loss: a source is set; a registry
\* is set only together with a version requirement (a registry source, or a
\* path source with a version); a path source lies at or below the base path
\* and has no backslash in a component;
\* the short string form does not hide an explicit optional or
\* default_features.
WrittenWithoutLoss(d, root) ==
    /\ d.source.some
    /\ d.registry.some =>
            \/ d.source.v.kind = "registry"
            \/ d.source.v.kind = "path" /\ d.source.v.version.some
    /\ d.source.v.kind = "path" =>
            /\ Len(d.source.v.path) >= Len(root)
            /\ SubSeq(d.source.v.path, 1, Len(root)) = root
            /\ \A i \in 1..Len(d.source.v.path) : d.source.v.path[i] # "a\\b"
    /\ ~(is_short_form(d) /\ (d.optional.some \/ d.default_features.some))

\* C1 amended: round trip for every Dependency that is written without loss:
\* from_toml of to_toml(d) succeeds and returns a dependency equal to d in
\* every field except available_features.
C1_RoundTripWrittenWithoutLoss ==
    Parsed /\ WrittenWithoutLoss(dep, crate_root)
        => back.ok /\ EqExceptAvailable(back.v, dep)

C1_Witness ==
    /\ pc = "parsed" /\ WrittenWithoutLoss(dep, crate_root)
    /\ back.ok /\ back.v.rename = Some("a1") /\ back.v.name = "a"
    /\ back.v.source.v.kind = "path" /\ back.v.source.v.path = <<"/", "c", "y">>
    /\ back.v.features = Some(<<"y", "x">>) /\ back.v.optional = Some(FALSE)
    /\ dep.available_features # {} /\ back.v.available_features = {}

\* C2: for every Dependency with a source, the node to_toml wrote is read
\* back by from_toml without error, the dependency read back has the same
\* toml_key, and serialising it again gives the same node.
C2_ReserialiseStable ==
    /\ Parsed /\ dep.source.some => back.ok /\ toml_key(back.v) = toml_key(dep)
    /\ pc = "reserialised" /\ dep.source.some => item2 = item

C2_Witness ==
    /\ pc = "reserialised" /\ item2 = item
    /\ dep.source.some /\ dep.source.v.kind = "path"
    /\ dep.source.v.path = <<"/", "x">> /\ crate_root = <<"/", "c">>
    /\ dep.rename.some /\ dep.default_features = Some(FALSE)
    /\ ~EqExceptAvailable(back.v, dep)

\* C9: to_toml returns a plain string node, the version requirement, exactly
\* when the source is a registry requirement, the dependency is not optional,
\* default features are not disabled and no features, registry or rename are
\* set; in every other case it returns an inline table.
C9_ShortFormExactly ==
    pc # "start" =>
        LET bare == /\ dep.source.some /\ dep.source.v.kind = "registry"
                    /\ dep.optional # Some(TRUE)
                    /\ dep.default_features # Some(FALSE)
                    /\ ~dep.features.some /\ ~dep.registry.some /\ ~dep.rename.some
        IN  /\ bare => item = Str(dep.source.v.version)
            /\ ~bare => is_inline_table(item)

C9_Witness ==
    /\ pc = "serialised" /\ is_str(item)
    /\ dep.optional = Some(FALSE) /\ dep.default_features = Some(TRUE)

-----------------------------------------------------------------------------
(* Claims about insert_into_table and update_toml, checked under Spec *)

Inserted == op.name = "insert_into_table" /\ op.ok

\* The entry under `key` of the table at `path`, if there is one.
EntryAt(d, path, key) ==
    LET table == get_table(d, path)
    IN  IF table.ok THEN get(table.v.entries, key) ELSE NoneV

PreEntry == EntryAt(pre, op.table_path, toml_key(op.dep))
PostEntry == EntryAt(doc, op.table_path, toml_key(op.dep))

Field(entry, k) == IF is_table_like(entry) THEN get(entry.entries, k) ELSE NoneV

\* The package an entry stored under `key` is about.
PackageOf(key, entry) ==
    IF Field(entry, "package").some THEN Field(entry, "package").v ELSE Str(key)

\* The entry is a table of the identity the dependency has: its package field
\* is the dependency's name when the dependency is renamed, absent otherwise.
SameIdentity(entry, d) ==
    /\ is_table_like(entry)
    /\ Field(entry, "package") = IF d.rename.some THEN Some(Str(d.name)) ELSE NoneV

\* The last operation merged its dependency into an existing multi-key entry
\* of the same package identity.
Merged ==
    /\ Inserted /\ PreEntry.some
    /\ is_table_like(PreEntry.v) /\ Len(PreEntry.v.entries) >= 2
    /\ SameIdentity(PreEntry.v, op.dep)

\* C3: when a dependency is merged into an existing multi-key entry of the
\* same package identity and leaves optional (default_features, features)
\* unset, the entry's optional (default-features, features) key and value
\* are the same after the merge as before.
C3_UnsetLeavesFieldAlone ==
    Merged =>
        /\ ~op.dep.optional.some =>
                Field(PostEntry.v, "optional") = Field(PreEntry.v, "optional")
        /\ ~op.dep.default_features.some =>
                Field(PostEntry.v, "default-features") = Field(PreEntry.v, "default-features")
        /\ ~op.dep.features.some =>
                Field(PostEntry.v, "features") = Field(PreEntry.v, "features")

\* The elements of `existing` in their order, each once, followed by the
\* elements of `new` that `existing` does not have, each once.
RECURSIVE Once(_)
Once(seq) ==
    IF seq = <<>> THEN <<>>
    ELSE LET rest == Once(Tail(seq))
         IN  <<Head(seq)>> \o SelectSeq(rest, LAMBDA e : e # Head(seq))

FeatureUnion(existing, new) == Once(existing \o new)

\* C4: when a dependency that specifies features is merged in place into an
\* entry that has a features array, the array afterwards is the existing
\* elements in their order followed by the new features not already there,
\* without duplicates, so no feature the array had is dropped.
C4_FeaturesAreUnioned ==
    Merged /\ op.dep.features.some
           /\ Field(PreEntry.v, "features").some /\ is_array(Field(PreEntry.v, "features").v)
    => LET before == Field(PreEntry.v, "features").v.elems
           added == [i \in 1..Len(op.dep.features.v) |-> Str(op.dep.features.v[i])]
           after == Field(PostEntry.v, "features")
       IN  /\ after = Some(Arr(FeatureUnion(before, added)))
           /\ \A i \in 1..Len(before) : \E j \in 1..Len(after.v.elems) :
                  after.v.elems[j] = before[i]

RecognisedKeys ==
    {"version", "path", "git", "branch", "tag", "rev", "registry", "package",
     "default-features", "features", "optional"}

\* C5: when update_toml is applied to a table entry that holds, besides its
\* source keys, a key the tool does not recognise, and the new dependency has
\* the same package identity, that key and its value are in the entry,
\* unchanged, after the update.
C5_UnrecognisedKeySurvives ==
    Inserted /\ PreEntry.some /\ SameIdentity(PreEntry.v, op.dep)
             /\ Keys(PreEntry.v.entries) \cap {"version", "path", "git"} # {}
    => \A k \in Keys(PreEntry.v.entries) \ RecognisedKeys :
           Field(PostEntry.v, k) = Field(PreEntry.v, k)

C5_Witness ==
    /\ Inserted /\ PreEntry.some /\ SameIdentity(PreEntry.v, op.dep)
    /\ Field(PreEntry.v, "version").some /\ Field(PreEntry.v, "extra") = Some(Str("keep"))
    /\ op.dep.source.some /\ op.dep.source.v.kind = "git"
    /\ Field(PostEntry.v, "git").some /\ ~Field(PostEntry.v, "version").some
    /\ Field(PostEntry.v, "extra") = Some(Str("keep"))

\* C6: after insert_into_table adds a dependency of package n to a table,
\* the table holds exactly one entry for package n, the one under the
\* dependency's toml_key.
C6_OneEntryPerPackage ==
    Inserted =>
        LET entries == get_table(doc, op.table_path).v.entries
        IN  \A i \in 1..Len(entries) :
                PackageOf(entries[i].k, entries[i].v) = Str(op.dep.name)
                    => entries[i].k = toml_key(op.dep)

\* C7: after an insert with a source set, whatever the entry held before, the
\* entry carries only the keys of that source kind: after a registry source
\* a version and none of path/git/branch/tag/rev; after a path source a path
\* and none of git/branch/tag/rev; after a git source a git, at most one of
\* branch/tag/rev, and neither version nor path.
C7_SourceKindsExclusive ==
    Inserted /\ op.dep.source.some =>
        LET entry == PostEntry.v
            keys == IF is_table_like(entry) THEN Keys(entry.entries) ELSE {"version"}
            kind == op.dep.source.v.kind
        IN  /\ PostEntry.some /\ (is_str(entry) \/ is_table_like(entry))
            /\ kind = "registry" =>
                    /\ "version" \in keys
                    /\ keys \cap {"path", "git", "branch", "tag", "rev"} = {}
            /\ kind = "path" =>
                    /\ "path" \in keys
                    /\ keys \cap {"git", "branch", "tag", "rev"} = {}
            /\ kind = "git" =>
                    /\ "git" \in keys
                    /\ Cardinality(keys \cap {"branch", "tag", "rev"}) <= 1
                    /\ keys \cap {"version", "path"} = {}

\* A second insert on the same key changed the kind of source of an entry
\* that was merged in place.
C7_Witness ==
    /\ Merged /\ op.n = 2 /\ op.dep.source.some /\ op.dep.source.v.kind = "path"
    /\ Field(PreEntry.v, "git").some /\ Field(PreEntry.v, "branch").some
    /\ Field(PostEntry.v, "path").some /\ Field(PostEntry.v, "version").some
    /\ ~Field(PostEntry.v, "git").some /\ ~Field(PostEntry.v, "branch").some

\* C8: after insert_into_table(dep), whatever the entry at dep.toml_key() was
\* before, the entry has a package field equal to dep.name when dep.rename is
\* set and no package field when it is not; and from_toml returns a
\* dependency with rename set, to the document key, exactly when the node has
\* a package field, whose value becomes the name.
C8_RenameAgreesWithPackage ==
    Inserted =>
        LET entry == PostEntry.v
            key == toml_key(op.dep)
            read == from_toml(crate_root, key, entry)
        IN  /\ op.dep.rename.some => Field(entry, "package") = Some(Str(op.dep.name))
            /\ ~op.dep.rename.some => ~Field(entry, "package").some
            /\ read.ok =>
                    /\ read.v.rename.some <=> Field(entry, "package").some
                    /\ read.v.rename.some =>
                            /\ read.v.rename.v = key
                            /\ Str(read.v.name) = Field(entry, "package").v
                    /\ ~read.v.rename.some => read.v.name = key

\* The version requirement an entry carries, if it carries one as a string.
VersionOf(entry) ==
    IF is_str(entry) THEN Some(entry.s)
    ELSE IF Field(entry, "version").some /\ is_str(Field(entry, "version").v)
         THEN Some(Field(entry, "version").v.s)
    ELSE NoneV

HasPlus(version) == \E i \in 1..Len(version) : version[i] = "+"

\* `short` is `long` cut at its first "+".
TruncatedAtFirstPlus(short, long) ==
    /\ Len(short) <= Len(long)
    /\ short = SubSeq(long, 1, Len(short))
    /\ ~HasPlus(short)
    /\ Len(short) < Len(long) => long[Len(short) + 1] = "+"

DependencyTablePaths ==
    {<<"dependencies">>, <<"dev-dependencies">>, <<"build-dependencies">>,
     <<"target", "t", "dependencies">>}

\* C10: a version requirement given to RegistrySource::new or
\* PathSource::set_version is stored truncated at its first '+', so after any
\* sequence of inserts no version value in a dependency table contains a '+';
\* truncating twice gives the same as truncating once.
C10_NoBuildMetadata ==
    /\ Inserted /\ op.raw.some =>
            /\ VersionOf(PostEntry.v).some
            /\ TruncatedAtFirstPlus(VersionOf(PostEntry.v).v, op.raw.v)
            /\ strip_semver_metadata(strip_semver_metadata(op.raw.v))
                   = strip_semver_metadata(op.raw.v)
    /\ \A path \in DependencyTablePaths :
           LET table == get_table(doc, path)
           IN  table.ok => \A i \in 1..Len(table.v.entries) :
                   LET version == VersionOf(table.v.entries[i].v)
                   IN  version.some => ~HasPlus(version.v)

\* A path dependency given a version with build metadata was merged into an
\* entry an earlier insert wrote.
C10_Witness ==
    /\ Inserted /\ op.n = 2 /\ op.raw = Some(<<"2", "+", "m">>)
    /\ op.dep.source.v.kind = "path" /\ PreEntry.some
    /\ Field(PostEntry.v, "version") = Some(Str(<<"2">>))

-----------------------------------------------------------------------------
(* Claims about from_toml on arbitrary nodes, checked under SpecRead *)

NodeRead == pc = "read"

TableLikeNode == item.t \in {"table", "inline table"}

\* The type each recognised field must have.
ExpectedType ==
    [k \in {"package", "git", "branch", "tag", "rev", "path", "version", "registry"} |-> "string"]
    @@ [k \in {"default-features", "optional"} |-> "boolean"]
    @@ [k \in {"features"} |-> "array"]

\* The recognised fields of the node whose value has another type; for
\* features, also an array with an element that is not a string.
WrongFields ==
    {k \in DOMAIN ExpectedType :
        LET v == get(item.entries, k)
        IN  /\ v.some
            /\ \/ v.v.t # ExpectedType[k]
               \/ k = "features" /\ \E i \in 1..Len(v.v.elems) : v.v.elems[i].t # "string"}

\* C19: from_toml returns a typed error naming the dependency key, the
\* field and the expected type whenever a recognised field of a table-like
\* node has the wrong type; such a field is never read as unset.
C19_WrongTypeIsTypedError ==
    (NodeRead /\ TableLikeNode /\ WrongFields # {}) =>
        /\ ~back.ok
        /\ back.err.kind = "invalid_type"
        /\ back.err.dep = ReadKey
        /\ back.err.key \in WrongFields
        /\ back.err.expected \in {ExpectedType[back.err.key], "string"}

HasSourceKey == \E k \in {"git", "path", "version"} : k \in Keys(item.entries)

\* What a plain string must be read as: a registry source for the string
\* (its version the string up to the first '+'), named by the key,
\* everything else unset.
ReadAsPlainVersion ==
    /\ back.ok
    /\ back.v.name = ReadKey
    /\ back.v.source.some /\ back.v.source.v.kind = "registry"
    /\ TruncatedAtFirstPlus(back.v.source.v.version, item.s)
    /\ back.v.optional = NoneV /\ back.v.default_features = NoneV
    /\ back.v.features = NoneV /\ back.v.registry = NoneV /\ back.v.rename = NoneV

\* C20 as stated: the unrecognized-source error on every table-like node
\* without git, path and version; an error on every node that is neither a
\* string nor table-like; a plain string is read as a registry source.
C20_UnrecognizedSourceAlways ==
    NodeRead =>
        /\ (TableLikeNode /\ ~HasSourceKey) =>
               (~back.ok /\ back.err.kind = "unrecognized_source")
        /\ (~TableLikeNode /\ item.t # "string") => ~back.ok
        /\ item.t = "string" => ReadAsPlainVersion

\* C20 amended: on a table-like node without git, path and version the
\* error is the typed error for package when package is not a string, the
\* unrecognized-source error otherwise.
C20_UnrecognizedSourceAfterPackage ==
    NodeRead =>
        /\ (TableLikeNode /\ ~HasSourceKey) =>
               /\ ~back.ok
               /\ IF "package" \in WrongFields
                  THEN back.err.kind = "invalid_type" /\ back.err.key = "package"
                  ELSE back.err.kind = "unrecognized_source" /\ back.err.dep = ReadKey
        /\ (~TableLikeNode /\ item.t # "string") =>
               (~back.ok /\ back.err.kind = "unrecognized_format")
        /\ item.t = "string" => ReadAsPlainVersion

\* from_toml refused a table that has registry, features and optional of
\* the right types but no git, path or version.
C20_Witness ==
    /\ NodeRead /\ TableLikeNode /\ ~HasSourceKey /\ WrongFields = {}
    /\ {"registry", "features", "optional"} \subseteq Keys(item.entries)
    /\ ~back.ok /\ back.err.kind = "unrecognized_source"

-----------------------------------------------------------------------------
(* Claims about get_table, checked under SpecLookup *)

GetTableRan == op.name = "get_table"

\* The node reached by the first n segments of the path, when each of them
\* exists and is table-like.
RECURSIVE Walk(_, _, _)
Walk(data, path, n) ==
    IF n = 0 THEN Some(data)
    ELSE LET up == Walk(data, path, n - 1)
         IN  IF ~up.some THEN NoneV
             ELSE LET i == {j \in 1..Len(up.v.entries) : up.v.entries[j].k = path[n]}
                  IN  IF i = {} THEN NoneV
                      ELSE LET v == up.v.entries[CHOOSE j \in i : TRUE].v
                           IN  IF v.t \in {"table", "inline table"} THEN Some(v) ELSE NoneV

\* C21: get_table returns the node at the path when every segment exists and
\* is table-like, otherwise fails with the table-not-found error naming the
\* first segment that is absent or not table-like; the document is unchanged.
C21_ReadPathFindsOrNamesSegment ==
    GetTableRan =>
        LET path == op.table_path
            bad == {n \in 1..Len(path) : ~Walk(doc, path, n).some}
        IN  /\ doc = pre
            /\ IF bad = {}
               THEN out.ok /\ out.v = Walk(doc, path, Len(path)).v
               ELSE /\ ~out.ok
                    /\ out.err.kind = "non_existent_table"
                    /\ out.err.table = path[Min(bad)]

\* get_table failed on a path whose second segment is a value, not a table.
C21_Witness ==
    /\ GetTableRan /\ op.table_path = <<"target", "t3", "dependencies">>
    /\ Walk(doc, op.table_path, 1).some
    /\ ~out.ok /\ out.err.table = "t3"

-----------------------------------------------------------------------------
(* Claims about where and how insert_into_table writes, checked under Spec *)

InsertCalled == op.name = "insert_into_table"

KeysAt(d, path) == IF get_table(d, path).ok THEN Keys(get_table(d, path).v.entries) ELSE {}

\* C22: the table path is [dev-dependencies] for dev, [build-dependencies]
\* for build, [target, <target>, dependencies] for a target and
\* [dependencies] otherwise; after a successful insert the dependency is an
\* entry of that table, get_sections lists the path, and no other dependency
\* table gained an entry.
C22_SectionPlacement ==
    /\ InsertCalled =>
           op.table_path =
               CASE op.args.dev -> <<"dev-dependencies">>
                 [] ~op.args.dev /\ op.args.build -> <<"build-dependencies">>
                 [] ~op.args.dev /\ ~op.args.build /\ op.args.target.some ->
                        <<"target", op.args.target.v, "dependencies">>
                 [] OTHER -> <<"dependencies">>
    /\ Inserted =>
           /\ toml_key(op.dep) \in KeysAt(doc, op.table_path)
           /\ \E i \in 1..Len(get_sections(doc)) : get_sections(doc)[i].path = op.table_path
           /\ \A p \in DependencyTablePaths \ {op.table_path} : KeysAt(doc, p) = KeysAt(pre, p)

\* An insert for a target created the target's dependencies table, and
\* [dependencies] kept the entry it had.
C22_Witness ==
    /\ Inserted /\ op.table_path = <<"target", "t", "dependencies">>
    /\ ~get_table(pre, op.table_path).ok
    /\ KeysAt(doc, op.table_path) = {"a"}
    /\ KeysAt(doc, <<"dependencies">>) = {"a"}

\* The existing entry is one the claim says is replaced wholesale: a plain
\* string, a table with exactly one key, or a table whose package field is
\* not the one the new identity asks for.
ReplacedWholesale ==
    /\ Inserted /\ PreEntry.some
    /\ \/ PreEntry.v.t = "string"
       \/ PreEntry.v.t \in {"table", "inline table"} /\ Len(PreEntry.v.entries) = 1
       \/ PreEntry.v.t \in {"table", "inline table"} /\ ~SameIdentity(PreEntry.v, op.dep)

\* C23: in those cases the entry after update_toml is identical to
\* to_toml(dep) and no key of the old entry survives on its own; a short-form
\* string merged with an optional = true registry dependency becomes the
\* inline table { version, optional = true }.
C23_WholesaleReplacement ==
    ReplacedWholesale =>
        /\ PostEntry.v = to_toml(op.dep, crate_root)
        /\ (/\ PreEntry.v.t = "string" /\ op.dep.optional = Some(TRUE)
            /\ op.dep.source.some /\ op.dep.source.v.kind = "registry"
            /\ ~op.dep.features.some /\ ~op.dep.default_features.some
            /\ ~op.dep.registry.some /\ ~op.dep.rename.some)
           => PostEntry.v = InlineTable(<<KV("version", Str(op.dep.source.v.version)),
                                          KV("optional", Bool(TRUE))>>)

\* update_toml took its in-place branch on the existing entry: a table with
\* more than one key whose package field is_package_eq accepts.
MergedInPlace ==
    /\ Inserted /\ PreEntry.some
    /\ ~str_or_1_len_table(PreEntry.v)
    /\ is_package_eq(PreEntry.v, op.dep.name, op.dep.rename)

\* key is in the entry exactly when o is set, and then holds o's value.
SetOrRemoved(key, o) ==
    IF o.some THEN Field(PostEntry.v, key) = Some(Bool(o.v))
    ELSE ~Field(PostEntry.v, key).some

-----------------------------------------------------------------------------
(* Claims about what gc_dep computes on entry and about calling it twice,
   checked under SpecGc *)

\* The status the claim describes: over every section get_sections returns.
StatusOverAllSections(data, K) ==
    IF OptionalIn(data, K) THEN "Optional"
    ELSE IF PresentIn(data, K) THEN "Required"
    ELSE "None"

\* C25: the status gc_dep uses is Optional if the key is present with
\* optional = true in at least one section returned by get_sections (block
\* table or inline table), Required if it is present in at least one and
\* optional in none, and None only if it is present in no section.
C25_StatusOverEverySection ==
    GcRan => op.status = StatusOverAllSections(pre, op.dep_key)

\* Some requirement list holds a reference 'K/<sub-feature>'.
HasSubFeatureOf(data, K) ==
    \E i \in 1..Len(ListsOf(data)) :
        \E j \in 1..Len(ListsOf(data)[i].v.elems) :
            IsSubFeatureOf(ListsOf(data)[i].v.elems[j], K)

\* C26 as stated: the explicit-activation fact of gc_dep is true exactly
\* when some requirement list of [features] holds 'dep:K' or 'K/<sub-feature>'.
C26_ExplicitIsDepOrSubFeature ==
    GcRan => (op.explicit <=> (HasEntry(pre, FDep(op.dep_key)) \/ HasSubFeatureOf(pre, op.dep_key)))

\* C26: the explicit-activation fact of gc_dep is true exactly when some
\* requirement list of [features], whichever feature it belongs to, holds
\* the entry 'dep:K'; a reference 'K/<sub-feature>' does not make it true.
C26_ExplicitIsDepOnly ==
    GcRan => (op.explicit <=> HasEntry(pre, FDep(op.dep_key)))

\* gc_dep found the fact true from a 'dep:K' entry that is not in the first
\* requirement list.
C26_Witness ==
    /\ GcRan /\ op.explicit
    /\ Len(ListsOf(pre)) >= 2
    /\ \A j \in 1..Len(ListsOf(pre)[1].v.elems) :
           ListsOf(pre)[1].v.elems[j] # FDep(op.dep_key)

\* The positions of the path where the document holds a value that is not
\* table-like, every segment before it being a table.
Blocked(data, path) ==
    {n \in 1..Len(path) :
        /\ Walk(data, path, n - 1).some
        /\ contains_key(Walk(data, path, n - 1).v.entries, path[n])
        /\ ~Walk(data, path, n).some}

\* C27: the write path creates an empty table for every absent segment and
\* fails with the table-not-found error naming the segment only when a value
\* already present on the path is not table-like; when it fails the
\* document is exactly as before the call.
C27_WritePathCreatesOrFails ==
    InsertCalled =>
        LET path == op.table_path
            blocked == Blocked(pre, path)
        IN  IF blocked = {}
            THEN /\ op.ok
                 /\ \A n \in 1..Len(path) :
                        /\ Walk(doc, path, n).some
                        /\ ~Walk(pre, path, n).some =>
                              /\ Walk(doc, path, n).v.t = "table"
                              /\ Keys(Walk(doc, path, n).v.entries) =
                                     IF n < Len(path) THEN {path[n + 1]}
                                     ELSE {toml_key(op.dep)}
            ELSE /\ ~op.ok
                 /\ op.err = Some(non_existent_table_err(path[Min(blocked)]))
                 /\ doc = pre

\* The insert failed at the third segment of a target path, below two
\* tables that were there before.
C27_Witness ==
    /\ InsertCalled /\ ~op.ok
    /\ op.table_path = <<"target", "t", "dependencies">>
    /\ Blocked(pre, op.table_path) = {3}
    /\ doc = pre

\* The keys of a table that may be absent.
KeysOf(node) == IF node.some THEN Keys(node.v.entries) ELSE {}

\* Apart from `skip`, the table has the keys it had, with the values they had.
SameApartFrom(before, after, skip) ==
    /\ after.some
    /\ KeysOf(after) \ {skip} = KeysOf(before) \ {skip}
    /\ \A k \in KeysOf(after) \ {skip} : get(after.v.entries, k) = get(before.v.entries, k)

C29_InsertIdempotent ==
    (Inserted /\ op.again) => PostEntry = PreEntry

\* C30: a second gc_dep with the same key, nothing else having changed in
\* between, removes nothing more: the [features] table after two calls is
\* the table after one call.
C30_GcIdempotent ==
    (GcRan /\ op.again) => get(doc.entries, "features") = get(pre.entries, "features")

====
